---- MODULE Spec2Model ----
(***************************************************************************)
(* Model of the streamlit_hello_app API wrappers: the TMDB key validator   *)
(* (utils.py), TmdbService (modules/tmdb_service.py) and OpenAIService     *)
(* (modules/openai_service.py), driven against a scripted HTTP transport.  *)
(*                                                                         *)
(* Python values are tagged records [t |-> type, val |-> payload]; Python    *)
(* strings are sequences of one-character strings, so that strip(),        *)
(* f-string formatting and concatenation are computed, not assumed.        *)
(* A JSON object is a record over the keys the code reads, a key the body  *)
(* does not carry holding Absent.                                          *)
(***************************************************************************)
EXTENDS Integers, Sequences, FiniteSets, TLC

VARIABLES svc, call, fetches, st_session_state, screen

vars == <<svc, call, fetches, st_session_state, screen>>

(***************************************************************************)
(* Bounds of the model.                                                    *)
(***************************************************************************)
MaxCredLen == 1
MaxQueryLen == 2
MaxHistoryLen == 2
MaxFetches == 3
MaxTime == 25
MaxChatLen == 11
MaxFailedSends == 1
MaxAttachedSends == 2

(***************************************************************************)
(* Python values.                                                          *)
(***************************************************************************)
\* A value is a record of its type t and its payload val; an outcome is a
\* record of its kind k (return or raise) and what is returned or raised.
None == [t |-> "none"]
Absent == [t |-> "absent"]
Return(v) == [k |-> "return", val |-> v]
Raise(e) == [k |-> "raise", val |-> e]
StrV(s) == [t |-> "str", val |-> s]
IntV(n) == [t |-> "int", val |-> n]
\* A float, held in tenths.
FloatV(tenths) == [t |-> "float", val |-> tenths]
ListV(xs) == [t |-> "list", val |-> xs]
DictV(r) == [t |-> "dict", val |-> r]

\* bool(x): None, '', 0, [] and {} are falsy.
Truthy(x) ==
    CASE x.t = "none" -> FALSE
      [] x.t = "str"  -> Len(x.val) > 0
      [] x.t = "int"  -> x.val # 0
      [] x.t = "float" -> x.val # 0
      [] x.t = "list" -> Len(x.val) > 0
      [] x.t = "dict" -> \E key \in DOMAIN x.val : x.val[key].t # "absent"
      [] OTHER        -> TRUE

\* type(x).__name__
TypeName(x) ==
    CASE x.t = "none" -> <<"N","o","n","e","T","y","p","e">>
      [] x.t = "str"  -> <<"s","t","r">>
      [] x.t = "int"  -> <<"i","n","t">>
      [] x.t = "float" -> <<"f","l","o","a","t">>
      [] x.t = "list" -> <<"l","i","s","t">>
      [] OTHER        -> <<"d","i","c","t">>

\* All sequences over alphabet of length at most n.
RECURSIVE StringsUpTo(_, _)
StringsUpTo(alphabet, n) ==
    IF n = 0 THEN {<<>>}
    ELSE LET shorter == StringsUpTo(alphabet, n - 1)
         IN shorter \cup {Append(s, c) : s \in shorter, c \in alphabet}

IsSpace(c) == c = " "

\* str.strip(): drop leading and trailing whitespace.
RECURSIVE LStrip(_)
LStrip(s) == IF Len(s) > 0 /\ IsSpace(Head(s)) THEN LStrip(Tail(s)) ELSE s

RECURSIVE RStrip(_)
RStrip(s) ==
    IF Len(s) > 0 /\ IsSpace(s[Len(s)]) THEN RStrip(SubSeq(s, 1, Len(s) - 1)) ELSE s

Strip(s) == RStrip(LStrip(s))

\* str.startswith(prefix)
StartsWith(s, prefix) ==
    Len(s) >= Len(prefix) /\ SubSeq(s, 1, Len(prefix)) = prefix

\* needle in haystack
Contains(haystack, needle) ==
    \E i \in 0..(Len(haystack) - Len(needle)) :
        SubSeq(haystack, i + 1, i + Len(needle)) = needle

Digit(d) == <<"0","1","2","3","4","5","6","7","8","9">>[d + 1]

\* str(n) for a non-negative integer.
RECURSIVE IntToStr(_)
IntToStr(n) == IF n < 10 THEN <<Digit(n)>> ELSE Append(IntToStr(n \div 10), Digit(n % 10))

\* f'{x}' for the values a body can put where a message is expected.
Format(x) ==
    CASE x.t = "str"  -> x.val
      [] x.t = "int"  -> IntToStr(x.val)
      [] x.t = "none" -> <<"N","o","n","e">>
      [] x.t = "list" -> <<"[","]">>
      [] OTHER        -> <<"{","}">>

(***************************************************************************)
(* Control outcomes and exceptions.                                        *)
(***************************************************************************)
Exc(cls, text) == [cls |-> cls, text |-> text]

\* The exception classes that occur, each with its bases.  The JSON decode
\* error of requests is both a RequestException and a ValueError.
Bases(cls) ==
    CASE cls = "ConnectionError"  -> {"ConnectionError", "RequestException", "Exception"}
      [] cls = "Timeout"          -> {"Timeout", "RequestException", "Exception"}
      [] cls = "RequestException" -> {"RequestException", "Exception"}
      [] cls = "JSONDecodeError"  -> {"JSONDecodeError", "RequestException", "ValueError", "Exception"}
      [] OTHER                    -> {cls, "Exception"}

IsInstance(e, classes) == Bases(e.cls) \cap classes # {}

JsonErrorText ==
    <<"E","x","p","e","c","t","i","n","g"," ","v","a","l","u","e",":"," ",
      "l","i","n","e"," ","1"," ","c","o","l","u","m","n"," ","1"," ",
      "(","c","h","a","r"," ","0",")">>

AttributeError(x, attr) ==
    Exc("AttributeError",
        <<"'">> \o TypeName(x)
        \o <<"'"," ","o","b","j","e","c","t"," ","h","a","s"," ","n","o"," ",
             "a","t","t","r","i","b","u","t","e"," ","'">>
        \o attr \o <<"'">>)

GetAttr == <<"g","e","t">>

\* x.get(key, default): AttributeError unless x is a dict.
DictGet(x, key, default) ==
    IF x.t # "dict" THEN Raise(AttributeError(x, GetAttr))
    ELSE IF x.val[key].t = "absent" THEN Return(default)
    ELSE Return(x.val[key])

(***************************************************************************)
(* The HTTP transport: what one request is answered with.                  *)
(***************************************************************************)
EmptyBody(cls) == [content |-> "empty", raises |-> cls, json |-> Absent]
TextBody(cls) == [content |-> "text", raises |-> cls, json |-> Absent]
JsonBody(x) == [content |-> "json", raises |-> "none", json |-> x]
Response(status, body) == [k |-> "response", status_code |-> status, body |-> body]
Failure(cls, text) == [k |-> "raise", cls |-> cls, text |-> text]

\* response.json()
ResponseJson(resp) ==
    IF resp.body.content = "json" THEN Return(resp.body.json)
    ELSE Raise(Exc(resp.body.raises, JsonErrorText))

\* bool(response.content)
HasContent(resp) == resp.body.content # "empty"

\* Evaluate `value` once and hand it to `Then`: one statement after another.
Bind(value, Then(_)) == CHOOSE r \in {Then(x) : x \in {value}} : TRUE

\* What requests.get / requests.post gives: the response, or the exception.
Send(answer) ==
    IF answer.k = "raise" THEN Raise(Exc(answer.cls, answer.text)) ELSE Return(answer)

(***************************************************************************)
(* utils.py: the TMDB key validator.                                       *)
(***************************************************************************)
TMDB_API_KEY_VALID == "valid"
TMDB_API_KEY_INVALID == "invalid"
TMDB_API_KEY_ERROR == "error"

AuthRequest(api_key) ==
    [method |-> "GET", url |-> "https://api.themoviedb.org/3/authentication",
     params |-> [api_key |-> api_key], timeout |-> 10]

\* A validator that takes a 200 answer as valid without parsing its body.
ValidateOn200_Unparsed(resp) == Return(TMDB_API_KEY_VALID)

\* Lines 123-129: a 200 answer is valid only if its body parses.
ValidateOn200(resp) ==
    Bind(ResponseJson(resp), LAMBDA parsed :
        IF parsed.k = "return" THEN Return(TMDB_API_KEY_VALID)
        ELSE IF IsInstance(parsed.val, {"ValueError"}) THEN Return(TMDB_API_KEY_ERROR)
        ELSE parsed)

\* A validator that takes every status other than 401 as a success.
ValidateStatus_AnyAsValid(resp) ==
    IF resp.status_code = 401 THEN Return(TMDB_API_KEY_INVALID)
    ELSE ValidateOn200(resp)

\* Lines 123-133: the status mapping.
ValidateStatus(resp) ==
    IF resp.status_code = 200 THEN ValidateOn200(resp)
    ELSE IF resp.status_code = 401 THEN Return(TMDB_API_KEY_INVALID)
    ELSE Return(TMDB_API_KEY_ERROR)

\* Lines 135-140: the handlers of the validator.
ValidateHandlers(out) ==
    IF out.k = "return" THEN out
    ELSE IF IsInstance(out.val, {"ConnectionError", "Timeout", "RequestException"})
    THEN Return(TMDB_API_KEY_ERROR)
    ELSE IF IsInstance(out.val, {"Exception"}) THEN Return(TMDB_API_KEY_ERROR)
    ELSE out

\* Lines 116-140: the try block with its handlers.
ValidateTry(answer) ==
    Bind(Send(answer), LAMBDA sent :
        ValidateHandlers(IF sent.k = "raise" THEN sent ELSE ValidateStatus(sent.val)))

\* A validator without the guard of lines 113-114.
validate_tmdb_api_key_NoGuard(api_key, answer) ==
    [out |-> ValidateTry(answer), reqs |-> <<AuthRequest(api_key)>>]

\* A validator that asks a second time when the transport raised.
validate_tmdb_api_key_Retry(api_key, answer) ==
    IF ~Truthy(api_key)
    THEN [out |-> Return(TMDB_API_KEY_ERROR), reqs |-> <<>>]
    ELSE [out |-> ValidateTry(answer),
          reqs |-> IF answer.k = "raise"
                   THEN <<AuthRequest(api_key), AuthRequest(api_key)>>
                   ELSE <<AuthRequest(api_key)>>]

\* validate_tmdb_api_key(api_key) against a transport that answers `answer`:
\* the outcome and the requests issued.
validate_tmdb_api_key(api_key, answer) ==
    IF ~Truthy(api_key)
    THEN [out |-> Return(TMDB_API_KEY_ERROR), reqs |-> <<>>]
    ELSE [out |-> ValidateTry(answer), reqs |-> <<AuthRequest(api_key)>>]

(***************************************************************************)
(* modules/tmdb_service.py: TmdbService.                                   *)
(***************************************************************************)
API_KEY_REQUIRED_ERROR ==
    <<"A","P","I"," ","k","e","y"," ","i","s"," ","r","e","q","u","i","r","e","d">>
INVALID_API_KEY_ERROR == <<"I","n","v","a","l","i","d"," ","A","P","I"," ","k","e","y">>
QueryEmptyError ==
    <<"Q","u","e","r","y"," ","c","a","n","n","o","t"," ","b","e"," ","e","m","p","t","y">>
ApiErrorPrefix == <<"A","P","I"," ","e","r","r","o","r",":"," ">>
HttpPrefix == <<"H","T","T","P"," ">>
ConnectionErrorPrefix ==
    <<"C","o","n","n","e","c","t","i","o","n"," ","e","r","r","o","r",":"," ">>
RequestErrorPrefix == <<"R","e","q","u","e","s","t"," ","e","r","r","o","r",":"," ">>
UnexpectedErrorPrefix ==
    <<"U","n","e","x","p","e","c","t","e","d"," ","e","r","r","o","r",":"," ">>
UnknownTitle == <<"U","n","k","n","o","w","n"," ","T","i","t","l","e">>
UnknownYear == <<"U","n","k","n","o","w","n">>
NoOverview ==
    <<"N","o"," ","o","v","e","r","v","i","e","w"," ","a","v","a","i","l","a","b","l","e">>
Ellipsis == <<".",".",".">>
DefaultPosterSize == StrV(<<"w","5","0","0">>)
OverviewLimit == 200

\* A failure result that also carries a payload field.
Fail_WithPayload(message) ==
    [success |-> FALSE, error |-> message, response |-> None]

\* The two result shapes of the services.
Fail(message) == [success |-> FALSE, error |-> message]

\* No service object constructed.
NoService == [cls |-> "none"]

\* TmdbService.__init__
TmdbService(api_key) == [cls |-> "TmdbService", api_key |-> api_key, _config_cache |-> None]

\* The JSON objects of the TMDB API, over the keys the code reads
\* (change_keys stands for the keys of a configuration it does not read).
TmdbObject ==
    [results |-> Absent, page |-> Absent, total_pages |-> Absent,
     total_results |-> Absent, status_message |-> Absent, images |-> Absent,
     change_keys |-> Absent]
NoImages == DictV([base_url |-> Absent])
RawMovie ==
    [id |-> Absent, title |-> Absent, overview |-> Absent, poster_path |-> Absent,
     release_date |-> Absent, vote_average |-> Absent, vote_count |-> Absent]

ConfigRequest(api_key) ==
    [method |-> "GET", url |-> "https://api.themoviedb.org/3/configuration",
     params |-> [api_key |-> api_key], timeout |-> 10]

\* A configuration fetch that parses the body whatever the status is.
ConfigurationTry_AnyStatus(answer) ==
    Bind(Send(answer), LAMBDA sent :
        IF sent.k = "raise" THEN None
        ELSE Bind(ResponseJson(sent.val), LAMBDA parsed :
                IF parsed.k = "raise" THEN None ELSE parsed.val))

\* Lines 154-168: the try block of _get_configuration.
ConfigurationTry(answer) ==
    Bind(Send(answer), LAMBDA sent :
        IF sent.k = "raise" THEN None
        ELSE IF sent.val.status_code # 200 THEN None
        ELSE Bind(ResponseJson(sent.val), LAMBDA parsed :
                IF parsed.k = "raise" THEN None ELSE parsed.val))

\* _get_configuration(): the configuration or None, and the requests issued.
GetConfiguration(api_key, answer) ==
    IF ~Truthy(api_key) THEN [val |-> None, reqs |-> <<>>]
    ELSE [val |-> ConfigurationTry(answer), reqs |-> <<ConfigRequest(api_key)>>]

\* A poster URL that leaves the size out.
PosterUrlFrom_NoSize(config, size, poster_path) ==
    Bind(DictGet(config, "images", NoImages), LAMBDA images :
        IF images.k = "raise" THEN None
        ELSE Bind(DictGet(images.val, "base_url", None), LAMBDA base_url :
                IF base_url.k = "raise" THEN None
                ELSE IF ~Truthy(base_url.val) THEN None
                ELSE StrV(Format(base_url.val) \o Format(poster_path))))

\* Lines 134-138: the URL from a truthy cached configuration.
PosterUrlFrom(config, size, poster_path) ==
    Bind(DictGet(config, "images", NoImages), LAMBDA images :
        IF images.k = "raise" THEN None
        ELSE Bind(DictGet(images.val, "base_url", None), LAMBDA base_url :
                IF base_url.k = "raise" THEN None
                ELSE IF ~Truthy(base_url.val) THEN None
                ELSE StrV(Format(base_url.val) \o Format(size) \o Format(poster_path))))

\* Lines 126-142: fetch the configuration unless one is cached, keep what
\* came back, and build the URL from it.
PosterUrlTry(self, poster_path, size, answer) ==
    Bind(IF ~Truthy(self._config_cache) THEN GetConfiguration(self.api_key, answer)
         ELSE [val |-> self._config_cache, reqs |-> <<>>],
         LAMBDA fetched :
           [val |-> IF ~Truthy(fetched.val) THEN None
                    ELSE PosterUrlFrom(fetched.val, size, poster_path),
            reqs |-> fetched.reqs,
            cache |-> fetched.val])

\* get_movie_poster_url(): the URL or None, the requests issued and the
\* cache afterwards.
GetMoviePosterUrl(self, poster_path, size, answer) ==
    IF ~Truthy(poster_path)
    THEN [val |-> None, reqs |-> <<>>, cache |-> self._config_cache]
    ELSE PosterUrlTry(self, poster_path, size, answer)

\* release_date.split('-')[0]: the text before the first '-'.
RECURSIVE BeforeDash(_)
BeforeDash(s) ==
    IF Len(s) = 0 \/ Head(s) = "-" THEN <<>> ELSE <<Head(s)>> \o BeforeDash(Tail(s))

\* Lines 183-190: the release year.
ReleaseYear(release_date) ==
    IF ~Truthy(release_date) THEN StrV(UnknownYear)
    ELSE IF release_date.t = "str" THEN StrV(BeforeDash(release_date.val))
    ELSE StrV(UnknownYear)

\* An overview cut one character early: `>=` for `>`.
Overview_CutAtLimit(overview) ==
    IF ~Truthy(overview) THEN Return(StrV(NoOverview))
    ELSE IF overview.t # "str" THEN Raise(Exc("TypeError", <<>>))
    ELSE IF Len(overview.val) >= OverviewLimit
    THEN Return(StrV(SubSeq(overview.val, 1, OverviewLimit) \o Ellipsis))
    ELSE Return(overview)

\* Lines 192-197: the overview, cut to OverviewLimit characters.
Overview(overview) ==
    IF ~Truthy(overview) THEN Return(StrV(NoOverview))
    ELSE IF overview.t # "str"
    THEN Raise(Exc("TypeError",
                   <<"o","b","j","e","c","t"," ","o","f"," ","t","y","p","e"," ","'">>
                   \o TypeName(overview)
                   \o <<"'"," ","h","a","s"," ","n","o"," ","l","e","n","(",")">>))
    ELSE IF Len(overview.val) > OverviewLimit
    THEN Return(StrV(SubSeq(overview.val, 1, OverviewLimit) \o Ellipsis))
    ELSE Return(overview)

\* movie_data.get(key, default) of a record known to be a dict.
Field(m, key, default) == IF m[key].t = "absent" THEN default ELSE m[key]

\* Lines 199-207: the formatted movie.
FormattedMovie(m, overview, poster_url) ==
    [id |-> Field(m, "id", None),
     title |-> Field(m, "title", StrV(UnknownTitle)),
     overview |-> overview,
     poster_url |-> poster_url,
     release_year |-> ReleaseYear(Field(m, "release_date", StrV(<<>>))),
     vote_average |-> Field(m, "vote_average", FloatV(0)),
     vote_count |-> Field(m, "vote_count", IntV(0))]

\* _format_movie_data(): the formatted movie (or the exception raised), the
\* requests issued and the cache afterwards.
FormatMovieData(self, movie_data, answer) ==
    IF movie_data.t # "dict"
    THEN [out |-> Raise(AttributeError(movie_data, GetAttr)), reqs |-> <<>>,
          cache |-> self._config_cache]
    ELSE Bind(GetMoviePosterUrl(self, Field(movie_data.val, "poster_path", None),
                                DefaultPosterSize, answer),
              LAMBDA poster :
                Bind(Overview(Field(movie_data.val, "overview", StrV(<<>>))),
                     LAMBDA overview :
                       [out |-> IF overview.k = "raise" THEN overview
                                ELSE Return(FormattedMovie(movie_data.val, overview.val, poster.val)),
                        reqs |-> poster.reqs,
                        cache |-> poster.cache]))

\* One turn of the loop of lines 66-69: format the next raw result after
\* those done.
FormatNext(self, done, movie_data, answer) ==
    Bind(FormatMovieData([self EXCEPT !._config_cache = done.cache], movie_data, answer),
         LAMBDA next :
           [out |-> IF next.out.k = "raise" THEN next.out
                    ELSE Return(Append(done.out.val, next.out.val)),
            reqs |-> done.reqs \o next.reqs,
            cache |-> next.cache])

RECURSIVE FormatFrom(_, _, _, _)
FormatFrom(self, done, movies, answer) ==
    IF Len(movies) = 0 \/ done.out.k = "raise" THEN done
    ELSE Bind(FormatNext(self, done, Head(movies), answer),
              LAMBDA d : FormatFrom(self, d, Tail(movies), answer))

\* Lines 66-69: the loop over the raw results.
FormatMovies(self, movies, answer) ==
    FormatFrom(self, [out |-> Return(<<>>), reqs |-> <<>>, cache |-> self._config_cache],
               movies, answer)

NotIterable(x) ==
    Exc("TypeError",
        <<"'">> \o TypeName(x)
        \o <<"'"," ","o","b","j","e","c","t"," ","i","s"," ","n","o","t"," ",
             "i","t","e","r","a","b","l","e">>)

\* A step that issues no request and leaves the cache alone.
Quiet(self, out) == [out |-> out, reqs |-> <<>>, cache |-> self._config_cache]

\* Lines 71-77: the success result.
SearchSuccess(data, movies) ==
    [success |-> TRUE,
     movies |-> movies,
     current_page |-> Field(data, "page", IntV(1)),
     total_pages |-> Field(data, "total_pages", IntV(0)),
     total_results |-> Field(data, "total_results", IntV(0))]

\* Lines 66-77: the results of a parsed 200 body.
SearchResults(self, data, config) ==
    Bind(DictGet(data, "results", ListV(<<>>)), LAMBDA results :
        IF results.k = "raise" THEN Quiet(self, results)
        ELSE IF results.val.t # "list" THEN Quiet(self, Raise(NotIterable(results.val)))
        ELSE Bind(FormatMovies(self, results.val.val, config), LAMBDA formatted :
                IF formatted.out.k = "raise" THEN formatted
                ELSE [formatted EXCEPT !.out = Return(SearchSuccess(data.val, formatted.out.val))]))

\* Lines 62-77: a 200 answer.
SearchOn200(self, resp, config) ==
    Bind(ResponseJson(resp), LAMBDA data :
        IF data.k = "raise" THEN Quiet(self, data)
        ELSE SearchResults(self, data.val, config))

\* An error message that carries the provider's text bare, without 'API error: '.
SearchErrorMessage_NoPrefix(error_data, status_code) ==
    Bind(DictGet(error_data, "status_message", StrV(HttpPrefix \o IntToStr(status_code))),
         LAMBDA error_message :
           IF error_message.k = "raise" THEN error_message
           ELSE Return(Fail(Format(error_message.val))))

\* Line 87 and 90: the message of the error body, 'HTTP {status}' by default.
SearchErrorMessage(error_data, status_code) ==
    Bind(DictGet(error_data, "status_message", StrV(HttpPrefix \o IntToStr(status_code))),
         LAMBDA error_message :
           IF error_message.k = "raise" THEN error_message
           ELSE Return(Fail(ApiErrorPrefix \o Format(error_message.val))))

\* Lines 85-91: a status that is neither 200 nor 401.
SearchOnError(resp) ==
    Bind(IF HasContent(resp) THEN ResponseJson(resp) ELSE Return(DictV(TmdbObject)),
         LAMBDA error_data :
           IF error_data.k = "raise" THEN error_data
           ELSE SearchErrorMessage(error_data.val, resp.status_code))

\* Lines 62-91: the status mapping.
SearchStatus(self, resp, config) ==
    IF resp.status_code = 200 THEN SearchOn200(self, resp, config)
    ELSE IF resp.status_code = 401 THEN Quiet(self, Return(Fail(INVALID_API_KEY_ERROR)))
    ELSE Quiet(self, SearchOnError(resp))

\* Lines 93-110: the handlers of search_movies.
TmdbHandlers(out) ==
    IF out.k = "return" THEN out
    ELSE IF IsInstance(out.val, {"ConnectionError", "Timeout"})
    THEN Return(Fail(ConnectionErrorPrefix \o out.val.text))
    ELSE IF IsInstance(out.val, {"RequestException"})
    THEN Return(Fail(RequestErrorPrefix \o out.val.text))
    ELSE IF IsInstance(out.val, {"Exception"})
    THEN Return(Fail(UnexpectedErrorPrefix \o out.val.text))
    ELSE out

SearchRequest(api_key, query, page) ==
    [method |-> "GET", url |-> "https://api.themoviedb.org/3/search/movie",
     params |-> [api_key |-> api_key, query |-> Strip(query.val), page |-> page,
                 include_adult |-> FALSE],
     timeout |-> 10]

\* Lines 51-110: the try block with its handlers.
SearchTry(self, query, page, answers) ==
    Bind(Send(answers.search), LAMBDA sent :
        Bind(IF sent.k = "raise" THEN Quiet(self, sent)
             ELSE SearchStatus(self, sent.val, answers.config),
             LAMBDA body :
               [out |-> TmdbHandlers(body.out),
                reqs |-> <<SearchRequest(self.api_key, query, page)>> \o body.reqs,
                cache |-> body.cache]))

\* A blank test that forgets to strip.
BlankText_NoStrip(text) == ~Truthy(text)

\* text is None, '' or only whitespace (line 45).
BlankText(text) == ~Truthy(text) \/ Len(Strip(text.val)) = 0

\* search_movies(query, page): the result, the requests issued and the
\* cache afterwards.
search_movies(self, query, page, answers) ==
    IF ~Truthy(self.api_key) THEN Quiet(self, Return(Fail(API_KEY_REQUIRED_ERROR)))
    ELSE IF BlankText(query) THEN Quiet(self, Return(Fail(QueryEmptyError)))
    ELSE SearchTry(self, query, page, answers)

(***************************************************************************)
(* modules/openai_service.py: OpenAIService.                               *)
(***************************************************************************)
MessageEmptyError ==
    <<"M","e","s","s","a","g","e"," ","c","a","n","n","o","t"," ","b","e"," ",
      "e","m","p","t","y">>
HistoryEmptyError ==
    <<"C","o","n","v","e","r","s","a","t","i","o","n"," ","h","i","s","t","o","r","y"," ",
      "c","a","n","n","o","t"," ","b","e"," ","e","m","p","t","y">>
RateLimitError ==
    <<"R","a","t","e"," ","l","i","m","i","t"," ","e","x","c","e","e","d","e","d","."," ",
      "P","l","e","a","s","e"," ","t","r","y"," ","a","g","a","i","n"," ",
      "l","a","t","e","r",".">>
NoResponseGenerated ==
    <<"N","o"," ","r","e","s","p","o","n","s","e"," ","g","e","n","e","r","a","t","e","d">>
UnknownFinishReason == <<"u","n","k","n","o","w","n">>
DefaultModel == StrV(<<"g","p","t","-","3",".","5","-","t","u","r","b","o">>)
ChatModelPrefixes == {<<"g","p","t","-">>, <<"c","l","a","u","d","e","-">>}

\* OpenAIService.__init__
OpenAIService(api_key) == [cls |-> "OpenAIService", api_key |-> api_key]

\* The JSON objects of the OpenAI API, over the keys the code reads.
OpenAIObject ==
    [choices |-> Absent, model |-> Absent, usage |-> Absent, error |-> Absent,
     data |-> Absent]
Choice == [message |-> Absent, finish_reason |-> Absent]
ChoiceMessage == [content |-> Absent]
ErrorObject == [message |-> Absent]
ModelObject == [id |-> Absent]
NoUsage == DictV([total_tokens |-> Absent])

KeyText(key) ==
    CASE key = "message" -> <<"m","e","s","s","a","g","e">>
      [] key = "content" -> <<"c","o","n","t","e","n","t">>
      [] OTHER           -> <<"c","h","o","i","c","e","s">>

NotSubscriptable(x) ==
    Exc("TypeError",
        <<"'">> \o TypeName(x)
        \o <<"'"," ","o","b","j","e","c","t"," ","i","s"," ","n","o","t"," ",
             "s","u","b","s","c","r","i","p","t","a","b","l","e">>)

\* x[key] for a string key: KeyError when a dict lacks it.
Subscript(x, key) ==
    IF x.t # "dict" THEN Raise(NotSubscriptable(x))
    ELSE IF x.val[key].t = "absent"
    THEN Raise(Exc("KeyError", <<"'">> \o KeyText(key) \o <<"'">>))
    ELSE Return(x.val[key])

\* x[0]
First(x) ==
    IF x.t # "list" THEN Raise(NotSubscriptable(x))
    ELSE IF Len(x.val) = 0
    THEN Raise(Exc("IndexError",
                   <<"l","i","s","t"," ","i","n","d","e","x"," ","o","u","t"," ","o","f"," ",
                     "r","a","n","g","e">>))
    ELSE Return(x.val[1])

\* data['choices'][0]['message']['content']
FirstChoiceContent(choices) ==
    Bind(First(choices), LAMBDA choice :
        IF choice.k = "raise" THEN choice
        ELSE Bind(Subscript(choice.val, "message"), LAMBDA message :
                IF message.k = "raise" THEN message
                ELSE Subscript(message.val, "content")))

\* Lines 99-102: the text of the first choice, or the placeholder.
ResponseContent(data) ==
    Bind(DictGet(data, "choices", None), LAMBDA choices :
        IF choices.k = "raise" THEN choices
        ELSE IF ~Truthy(choices.val) THEN Return(StrV(NoResponseGenerated))
        ELSE FirstChoiceContent(choices.val))

\* Line 109: data.get('choices', [{}])[0].get('finish_reason', 'unknown')
FinishReason(data) ==
    Bind(DictGet(data, "choices", ListV(<<DictV(Choice)>>)), LAMBDA choices :
        IF choices.k = "raise" THEN choices
        ELSE Bind(First(choices.val), LAMBDA choice :
                IF choice.k = "raise" THEN choice
                ELSE DictGet(choice.val, "finish_reason", StrV(UnknownFinishReason))))

\* Lines 104-110: the success result.
ChatSuccess(data, model, content, finish_reason) ==
    [success |-> TRUE,
     response |-> content,
     model |-> Field(data, "model", model),
     usage |-> Field(data, "usage", NoUsage),
     finish_reason |-> finish_reason]

\* Lines 98-110: the result from a parsed 200 body.
ChatResult(data, model) ==
    Bind(ResponseContent(data), LAMBDA content :
        IF content.k = "raise" THEN content
        ELSE Bind(FinishReason(data), LAMBDA finish_reason :
                IF finish_reason.k = "raise" THEN finish_reason
                ELSE Return(ChatSuccess(data.val, model, content.val, finish_reason.val))))

\* Lines 95-110 (and 204-219): a 200 answer.
ChatOn200(resp, model) ==
    Bind(ResponseJson(resp), LAMBDA data :
        IF data.k = "raise" THEN data ELSE ChatResult(data.val, model))

\* Lines 126-127: error_data.get('error', {}).get('message', f'HTTP {status}')
ErrorMessage(error_data, http) ==
    Bind(DictGet(error_data, "error", DictV(ErrorObject)), LAMBDA error :
        IF error.k = "raise" THEN error ELSE DictGet(error.val, "message", http))

\* Lines 125-129: the message, 'HTTP {status}' when a ValueError is raised.
ErrorMessageTry(resp, http) ==
    Bind(ResponseJson(resp), LAMBDA error_data :
        Bind(IF error_data.k = "raise" THEN error_data
             ELSE ErrorMessage(error_data.val, http),
             LAMBDA message :
               IF message.k = "raise" /\ IsInstance(message.val, {"ValueError"})
               THEN Return(http)
               ELSE message))

\* Lines 125-134 (and 234-243, 308-317): any other status.
OpenAIOnError(resp) ==
    Bind(ErrorMessageTry(resp, StrV(HttpPrefix \o IntToStr(resp.status_code))),
         LAMBDA error_message :
           IF error_message.k = "raise" THEN error_message
           ELSE Return(Fail(ApiErrorPrefix \o Format(error_message.val))))

\* Lines 95-134 (and 204-243): the status mapping of the chat endpoint.
ChatStatus(resp, model) ==
    IF resp.status_code = 200 THEN ChatOn200(resp, model)
    ELSE IF resp.status_code = 401 THEN Return(Fail(INVALID_API_KEY_ERROR))
    ELSE IF resp.status_code = 429 THEN Return(Fail(RateLimitError))
    ELSE OpenAIOnError(resp)

\* Handlers without the final `except Exception`.
OpenAIHandlers_NoCatchAll(out) ==
    IF out.k = "return" THEN out
    ELSE IF IsInstance(out.val, {"ConnectionError", "Timeout"})
    THEN Return(Fail(ConnectionErrorPrefix \o out.val.text))
    ELSE IF IsInstance(out.val, {"RequestException"})
    THEN Return(Fail(RequestErrorPrefix \o out.val.text))
    ELSE out

\* Lines 136-153 (and 245-262, 319-336): the handlers of the service methods.
OpenAIHandlers(out) ==
    IF out.k = "return" THEN out
    ELSE IF IsInstance(out.val, {"ConnectionError", "Timeout"})
    THEN Return(Fail(ConnectionErrorPrefix \o out.val.text))
    ELSE IF IsInstance(out.val, {"RequestException"})
    THEN Return(Fail(RequestErrorPrefix \o out.val.text))
    ELSE IF IsInstance(out.val, {"Exception"})
    THEN Return(Fail(UnexpectedErrorPrefix \o out.val.text))
    ELSE out

Headers(api_key) ==
    [Authorization |-> <<"B","e","a","r","e","r"," ">> \o Format(api_key),
     ContentType |-> "application/json"]

\* Lines 84-91 (and 193-200): the payload; max_tokens only when truthy.
Payload(model, messages, temperature, max_tokens) ==
    IF Truthy(max_tokens)
    THEN [model |-> model, messages |-> messages, temperature |-> temperature,
          max_tokens |-> max_tokens]
    ELSE [model |-> model, messages |-> messages, temperature |-> temperature]

ChatRequest(api_key, payload) ==
    [method |-> "POST", url |-> "https://api.openai.com/v1/chat/completions",
     headers |-> Headers(api_key), json |-> payload, timeout |-> 30]

\* A message list whose user message is the input as typed, not trimmed.
BuildMessages_NoStrip(message, system_message) ==
    (IF Truthy(system_message)
     THEN <<[role |-> "system", content |-> system_message.val]>> ELSE <<>>)
    \o <<[role |-> "user", content |-> message.val]>>

\* Lines 73-82: the message list of chat_completion.
BuildMessages(message, system_message) ==
    (IF Truthy(system_message)
     THEN <<[role |-> "system", content |-> system_message.val]>> ELSE <<>>)
    \o <<[role |-> "user", content |-> Strip(message.val)]>>

\* Lines 65-153 (and 186-262): the POST and the mapping of its answer.
ChatTry(api_key, payload, model, answer) ==
    Bind(Send(answer), LAMBDA sent :
        [out |-> OpenAIHandlers(IF sent.k = "raise" THEN sent ELSE ChatStatus(sent.val, model)),
         reqs |-> <<ChatRequest(api_key, payload)>>])

\* chat_completion(message, system_message, model, temperature, max_tokens)
chat_completion(self, message, system_message, model, temperature, max_tokens, answer) ==
    IF ~Truthy(self.api_key)
    THEN [out |-> Return(Fail(API_KEY_REQUIRED_ERROR)), reqs |-> <<>>]
    ELSE IF BlankText(message)
    THEN [out |-> Return(Fail(MessageEmptyError)), reqs |-> <<>>]
    ELSE ChatTry(self.api_key,
                 Payload(model, BuildMessages(message, system_message), temperature,
                         max_tokens),
                 model, answer)

\* A history guard that tests for None only and lets an empty list through.
chat_completion_with_history_NoneOnly(self, conversation_history, model, temperature, max_tokens, answer) ==
    IF ~Truthy(self.api_key)
    THEN [out |-> Return(Fail(API_KEY_REQUIRED_ERROR)), reqs |-> <<>>]
    ELSE IF conversation_history = None
    THEN [out |-> Return(Fail(HistoryEmptyError)), reqs |-> <<>>]
    ELSE ChatTry(self.api_key,
                 Payload(model, conversation_history.val, temperature, max_tokens),
                 model, answer)

\* A conversation call that sends only the latest message of the history.
chat_completion_with_history_LastOnly(self, conversation_history, model, temperature, max_tokens, answer) ==
    IF ~Truthy(self.api_key)
    THEN [out |-> Return(Fail(API_KEY_REQUIRED_ERROR)), reqs |-> <<>>]
    ELSE IF ~Truthy(conversation_history) \/ Len(conversation_history.val) = 0
    THEN [out |-> Return(Fail(HistoryEmptyError)), reqs |-> <<>>]
    ELSE ChatTry(self.api_key,
                 Payload(model,
                         <<conversation_history.val[Len(conversation_history.val)]>>,
                         temperature, max_tokens),
                 model, answer)

\* chat_completion_with_history(conversation_history, model, temperature, max_tokens)
chat_completion_with_history(self, conversation_history, model, temperature, max_tokens, answer) ==
    IF ~Truthy(self.api_key)
    THEN [out |-> Return(Fail(API_KEY_REQUIRED_ERROR)), reqs |-> <<>>]
    ELSE IF ~Truthy(conversation_history) \/ Len(conversation_history.val) = 0
    THEN [out |-> Return(Fail(HistoryEmptyError)), reqs |-> <<>>]
    ELSE ChatTry(self.api_key,
                 Payload(model, conversation_history.val, temperature, max_tokens),
                 model, answer)

ModelsRequest(api_key) ==
    [method |-> "GET", url |-> "https://api.openai.com/v1/models",
     headers |-> Headers(api_key), timeout |-> 10]

\* model.get('id', '').startswith(('gpt-', 'claude-'))
IsChatModel(model) ==
    Bind(DictGet(model, "id", StrV(<<>>)), LAMBDA id :
        IF id.k = "raise" THEN id
        ELSE IF id.val.t # "str"
        THEN Raise(AttributeError(id.val, <<"s","t","a","r","t","s","w","i","t","h">>))
        ELSE Return(\E prefix \in ChatModelPrefixes : StartsWith(id.val.val, prefix)))

\* One turn of the comprehension of lines 291-294.
KeepChatModel(kept, model) ==
    Bind(IsChatModel(model), LAMBDA keep :
        IF keep.k = "raise" THEN keep
        ELSE IF keep.val THEN Return(Append(kept.val, model))
        ELSE kept)

\* Lines 291-294: the chat models of the list, in order.
RECURSIVE ChatModelsFrom(_, _)
ChatModelsFrom(kept, models) ==
    IF Len(models) = 0 \/ kept.k = "raise" THEN kept
    ELSE Bind(KeepChatModel(kept, Head(models)),
              LAMBDA k : ChatModelsFrom(k, Tail(models)))

\* Lines 287-299: the models from a parsed 200 body.
ModelsResult(data) ==
    Bind(DictGet(data, "data", ListV(<<>>)), LAMBDA models :
        IF models.k = "raise" THEN models
        ELSE IF models.val.t # "list" THEN Raise(NotIterable(models.val))
        ELSE Bind(ChatModelsFrom(Return(<<>>), models.val.val), LAMBDA chat_models :
                IF chat_models.k = "raise" THEN chat_models
                ELSE Return([success |-> TRUE, models |-> chat_models.val])))

\* Lines 286-317: the status mapping of the models endpoint.
ModelsStatus(resp) ==
    IF resp.status_code = 200
    THEN Bind(ResponseJson(resp), LAMBDA data :
            IF data.k = "raise" THEN data ELSE ModelsResult(data.val))
    ELSE IF resp.status_code = 401 THEN Return(Fail(INVALID_API_KEY_ERROR))
    ELSE OpenAIOnError(resp)

\* get_available_models()
get_available_models(self, answer) ==
    IF ~Truthy(self.api_key)
    THEN [out |-> Return(Fail(API_KEY_REQUIRED_ERROR)), reqs |-> <<>>]
    ELSE Bind(Send(answer), LAMBDA sent :
            [out |-> OpenAIHandlers(IF sent.k = "raise" THEN sent ELSE ModelsStatus(sent.val)),
             reqs |-> <<ModelsRequest(self.api_key)>>])

(***************************************************************************)
(* modules/movie_search.py: the page's own formatter.                      *)
(***************************************************************************)
PageOverviewLimit == 200
PageOverviewKept == 197

\* A release year that is checked to be a number, 'Unknown' otherwise.
PageReleaseYear_Checked(release_date) ==
    IF ~Truthy(release_date) \/ release_date.t # "str" THEN StrV(UnknownYear)
    ELSE IF \A i \in 1..Len(BeforeDash(release_date.val)) :
                BeforeDash(release_date.val)[i] \in {Digit(d) : d \in 0..9}
    THEN StrV(BeforeDash(release_date.val))
    ELSE StrV(UnknownYear)

\* Lines 221-228: the release year; the AttributeError of a value without
\* split() is caught.
PageReleaseYear(release_date) ==
    IF ~Truthy(release_date) THEN StrV(UnknownYear)
    ELSE IF release_date.t = "str" THEN StrV(BeforeDash(release_date.val))
    ELSE StrV(UnknownYear)

\* An overview cut at the limit, the marker added after it.
PageOverview_KeepLimit(overview) ==
    IF ~Truthy(overview) THEN Return(StrV(NoOverview))
    ELSE IF overview.t # "str" THEN Raise(Exc("TypeError", <<>>))
    ELSE IF Len(overview.val) > PageOverviewLimit
    THEN Return(StrV(SubSeq(overview.val, 1, PageOverviewLimit) \o Ellipsis))
    ELSE Return(overview)

\* Lines 230-235: the overview; len() of a number raises.
PageOverview(overview) ==
    IF ~Truthy(overview) THEN Return(StrV(NoOverview))
    ELSE IF overview.t # "str"
    THEN Raise(Exc("TypeError",
                   <<"o","b","j","e","c","t"," ","o","f"," ","t","y","p","e"," ","'">>
                   \o TypeName(overview)
                   \o <<"'"," ","h","a","s"," ","n","o"," ","l","e","n","(",")">>))
    ELSE IF Len(overview.val) > PageOverviewLimit
    THEN Return(StrV(SubSeq(overview.val, 1, PageOverviewKept) \o Ellipsis))
    ELSE Return(overview)

\* Lines 238-244: `if x is None: x = default`.
NoneTo(x, default) == IF x = None THEN default ELSE x

\* format_movie_data(raw_movie, poster_url)
format_movie_data(raw_movie, poster_url) ==
    IF raw_movie.t # "dict" THEN Raise(AttributeError(raw_movie, GetAttr))
    ELSE Bind(PageOverview(Field(raw_movie.val, "overview", StrV(<<>>))), LAMBDA overview :
            IF overview.k = "raise" THEN overview
            ELSE Return(
                [id |-> Field(raw_movie.val, "id", None),
                 title |-> Field(raw_movie.val, "title", StrV(UnknownTitle)),
                 overview |-> overview.val,
                 poster_url |-> poster_url,
                 release_year |->
                     PageReleaseYear(Field(raw_movie.val, "release_date", StrV(<<>>))),
                 vote_average |-> NoneTo(Field(raw_movie.val, "vote_average", None), FloatV(0)),
                 vote_count |-> NoneTo(Field(raw_movie.val, "vote_count", None), IntV(0))]))

\* utils.py 84-97, get_tmdb_api_key(): the environment variable if it is
\* set and not empty, else what the user typed, else None.
get_tmdb_api_key(env_key, typed_key) ==
    IF Truthy(env_key) THEN env_key
    ELSE IF Truthy(typed_key) THEN typed_key
    ELSE None

\* st.session_state before anything is stored in it.
NewSession == [chat_history |-> Absent, uploaded_files |-> Absent, movie_search_page |-> Absent]

\* Lines 189-204, display_movie_card(): the rating and the vote count are
\* formatted as numbers; None has no such format.
CanShowCard(movie) ==
    /\ movie.vote_average.t \in {"int", "float"}
    /\ movie.vote_count.t = "int"
NoSuchFormat ==
    Exc("TypeError",
        <<"u","n","s","u","p","p","o","r","t","e","d"," ","f","o","r","m","a","t"," ",
          "s","t","r","i","n","g"," ","p","a","s","s","e","d"," ","t","o"," ",
          "N","o","n","e","T","y","p","e",".","_","_","f","o","r","m","a","t","_","_">>)

\* No pagination row on the page.
NoPagination == [current_page |-> 0, total_pages |-> 0]

\* Lines 121-149: the pagination row and the button among 'previous',
\* 'next', 'first', 'last' that reports a click, if it is enabled.
Paginate(session_state, current_page, total_pages, clicked) ==
    Bind(CASE clicked = "previous" /\ current_page > 1 -> current_page - 1
           [] clicked = "next" /\ current_page < total_pages -> current_page + 1
           [] clicked = "first" /\ current_page > 1 -> 1
           [] clicked = "last" /\ current_page < total_pages -> total_pages
           [] OTHER -> 0,
         LAMBDA target :
           [out |-> Return(None),
            pagination |-> [current_page |-> current_page, total_pages |-> total_pages],
            session_state |->
                IF target = 0 THEN session_state
                ELSE [session_state EXCEPT !.movie_search_page = IntV(target)],
            rerun |-> target # 0])

\* display_movie_results(results): what it leaves on the page and in the
\* session state, or the exception a card raised.
display_movie_results(session_state, results, clicked) ==
    IF Len(results.movies) = 0
    THEN [out |-> Return(None), pagination |-> NoPagination,
          session_state |-> session_state, rerun |-> FALSE]
    ELSE IF \E i \in 1..Len(results.movies) : ~CanShowCard(results.movies[i])
    THEN [out |-> Raise(NoSuchFormat), pagination |-> NoPagination,
          session_state |-> session_state, rerun |-> FALSE]
    ELSE IF results.total_pages.val > 1
    THEN Paginate(session_state, results.current_page.val, results.total_pages.val, clicked)
    ELSE [out |-> Return(None), pagination |-> NoPagination,
          session_state |-> session_state, rerun |-> FALSE]

\* The validator was not called.
NotAsked == "not asked"

\* What one run of a page did: the credential it obtained, what the
\* validator said (NotAsked when it was not called), the service object it
\* constructed, the calls it made on the service, the requests issued, what
\* the page shows, and the session state it leaves.
PageRun(api_key, validation, service, calls, reqs, view, pagination, session_state) ==
    [api_key |-> api_key, validation |-> validation, service |-> service,
     calls |-> calls, reqs |-> reqs, view |-> view, pagination |-> pagination,
     session_state |-> session_state]

\* Lines 51-65: the search of a run in which the Search button reports a
\* click and the query is not empty; none of the pagination buttons rendered
\* by this run can report a click in it.
SearchAndDisplay(session_state, api_key, validated, search_query, answers) ==
    Bind(search_movies(TmdbService(api_key), search_query, 1, answers), LAMBDA searched :
      Bind(IF searched.out.k = "return" /\ searched.out.val.success
           THEN display_movie_results(session_state, searched.out.val, "none")
           ELSE [out |-> searched.out, pagination |-> NoPagination,
                 session_state |-> session_state, rerun |-> FALSE],
           LAMBDA displayed :
             PageRun(api_key, validated.out.val, TmdbService(api_key),
                     <<[op |-> "search_movies", query |-> search_query, page |-> 1]>>,
                     validated.reqs \o searched.reqs,
                     IF displayed.out.k = "raise" THEN "unexpected error"
                     ELSE IF searched.out.val.success THEN "results"
                     ELSE "search failed",
                     displayed.pagination, displayed.session_state)))

\* A page that searches without asking the validator.
render_movie_search_Unvalidated(session_state, env_key, typed_key, auth_answer, event, search_query, answers) ==
    IF event = "search" /\ Truthy(search_query)
    THEN SearchAndDisplay(session_state, get_tmdb_api_key(env_key, typed_key),
                          [out |-> Return(NotAsked), reqs |-> <<>>], search_query, answers)
    ELSE PageRun(get_tmdb_api_key(env_key, typed_key), NotAsked, NoService, <<>>, <<>>,
                 "form", NoPagination, session_state)

\* render_movie_search(): one run of the page.  `event` is the widget whose
\* click caused the run ("load" for none).
render_movie_search(session_state, env_key, typed_key, auth_answer, event, search_query, answers) ==
    Bind(get_tmdb_api_key(env_key, typed_key), LAMBDA api_key :
      IF ~Truthy(api_key)
      THEN PageRun(api_key, NotAsked, NoService, <<>>, <<>>, "no key", NoPagination,
                   session_state)
      ELSE Bind(validate_tmdb_api_key(api_key, auth_answer), LAMBDA validated :
             IF validated.out.val # TMDB_API_KEY_VALID
             THEN PageRun(api_key, validated.out.val, NoService, <<>>, validated.reqs,
                          IF validated.out.val = "invalid" THEN "invalid key"
                          ELSE "validation error",
                          NoPagination, session_state)
             ELSE IF event = "search" /\ Truthy(search_query)
             THEN SearchAndDisplay(session_state, api_key, validated, search_query, answers)
             ELSE PageRun(api_key, validated.out.val, NoService, <<>>, validated.reqs,
                          "form", NoPagination, session_state)))

(***************************************************************************)
(* modules/chat.py: the chat page.  A message of the chat history is a     *)
(* record [role, content, files]; an assistant message, which has no       *)
(* 'files' key, holds the empty list there, which is how the page reads a  *)
(* missing key.  An uploaded file object is a record [name, type, content, *)
(* pos] of a text file: its decoded text and how far it has been read.     *)
(***************************************************************************)
HistoryWindow == 10
OPENAI_API_KEY_VALID == "valid"

\* get_openai_api_key(): the credential from the environment or from the
\* user, None when neither gives one.
get_openai_api_key(env_key, typed_key) ==
    IF Truthy(env_key) THEN env_key
    ELSE IF Truthy(typed_key) THEN typed_key
    ELSE None

\* validate_openai_api_key(api_key): 'error' without a request for no
\* credential; else one probe of the models endpoint, 200 with a parseable
\* body being 'valid', 401 'invalid' and anything else 'error'.
validate_openai_api_key(api_key, answer) ==
    IF ~Truthy(api_key)
    THEN [out |-> Return("error"), reqs |-> <<>>]
    ELSE [out |-> ValidateTry(answer), reqs |-> <<ModelsRequest(api_key)>>]

\* Lines 22-26: the session state with its lists initialised.
WithLists(session_state) ==
    [session_state EXCEPT
        !.chat_history = IF @ = Absent THEN ListV(<<>>) ELSE @,
        !.uploaded_files = IF @ = Absent THEN ListV(<<>>) ELSE @]

\* Lines 54-61: the models offered, from the result of get_available_models.
FallbackModels ==
    <<StrV(<<"g","p","t","-","3",".","5","-","t","u","r","b","o">>),
      StrV(<<"g","p","t","-","4">>),
      StrV(<<"g","p","t","-","4","-","t","u","r","b","o">>)>>
IsCommonModel(m) ==
    \/ StartsWith(m.val, <<"g","p","t","-","3",".","5">>)
    \/ StartsWith(m.val, <<"g","p","t","-","4">>)
ModelIds(models) == [i \in 1..Len(models) |-> models[i].val.id]
OfferedModels(models_result) ==
    IF ~models_result.success THEN FallbackModels
    ELSE IF SelectSeq(ModelIds(models_result.models), IsCommonModel) # <<>>
    THEN SelectSeq(ModelIds(models_result.models), IsCommonModel)
    ELSE SubSeq(ModelIds(models_result.models), 1,
                IF Len(models_result.models) < 5 THEN Len(models_result.models) ELSE 5)

\* Lines 63-67: the selectbox on its first option, None when there is none.
SelectedModel(chat_models) == IF chat_models = <<>> THEN None ELSE chat_models[1]

\* `uploaded_file not in ...` (line 114): two file objects are equal when
\* they are the same upload, wherever each has been read to.
SameUpload(f, g) == f.name = g.name /\ f.type = g.type /\ f.content = g.content

\* Lines 112-115: the file objects of the uploader not yet in the session
\* list are appended to it.
RECURSIVE AddUploads(_, _)
AddUploads(uploaded_files, widget_files) ==
    IF widget_files = <<>> THEN uploaded_files
    ELSE AddUploads(IF \E i \in 1..Len(uploaded_files) :
                          SameUpload(uploaded_files[i], Head(widget_files))
                    THEN uploaded_files
                    ELSE Append(uploaded_files, Head(widget_files)),
                    Tail(widget_files))

\* Line 125: uploaded_files.pop(i), i counted from 1 here.
Pop(xs, i) == SubSeq(xs, 1, i - 1) \o SubSeq(xs, i + 1, Len(xs))

\* Lines 265-272, _process_uploaded_file(file) of a text file: file.read()
\* gives what lies after the object's position, decoded.
_process_uploaded_file(file) == SubSeq(file.content, file.pos + 1, Len(file.content))

\* Line 267: file.read() leaves the object at its end; nothing rewinds it.
ReadToEnd(uploaded_files) ==
    [i \in 1..Len(uploaded_files) |->
        [uploaded_files[i] EXCEPT !.pos = Len(uploaded_files[i].content)]]

\* Lines 154-162: the files attached to a user message, those whose
\* processed content is not empty.
RECURSIVE Attachments(_)
Attachments(uploaded_files) ==
    IF uploaded_files = <<>> THEN <<>>
    ELSE (IF _process_uploaded_file(Head(uploaded_files)) # <<>>
          THEN <<[name |-> Head(uploaded_files).name,
                  content |-> _process_uploaded_file(Head(uploaded_files)),
                  type |-> Head(uploaded_files).type]>>
          ELSE <<>>)
         \o Attachments(Tail(uploaded_files))

\* Lines 202-206: the text of the attached files.
RECURSIVE FileTexts(_)
FileTexts(files) ==
    IF files = <<>> THEN <<>>
    ELSE <<"\n","-","-","-"," ">> \o Head(files).name \o <<" ","-","-","-","\n">>
         \o Head(files).content \o <<"\n">> \o FileTexts(Tail(files))
FileContext(files) ==
    <<"\n","\n","*","*","U","p","l","o","a","d","e","d"," ","f","i","l","e","s"," ",
      "c","o","n","t","e","n","t",":","*","*","\n">> \o FileTexts(files)

\* Lines 199-220: a message of the history as the API is given it.
ForApi(msg) ==
    [role |-> msg.role,
     content |-> IF msg.role = "user" /\ msg.files # <<>>
                 THEN msg.content \o FileContext(msg.files)
                 ELSE msg.content]

\* A window that is one message short.
LastMessages_OneShort(chat_history) ==
    SubSeq(chat_history,
           IF Len(chat_history) > HistoryWindow - 1
           THEN Len(chat_history) - (HistoryWindow - 1) + 1 ELSE 1,
           Len(chat_history))

\* Line 198: chat_history[-10:]
LastMessages(chat_history) ==
    SubSeq(chat_history,
           IF Len(chat_history) > HistoryWindow
           THEN Len(chat_history) - HistoryWindow + 1 ELSE 1,
           Len(chat_history))

\* Lines 178-220: the conversation for the API.
Conversation(system_message, chat_history) ==
    (IF Strip(system_message) # <<>>
     THEN <<[role |-> "system", content |-> Strip(system_message)]>> ELSE <<>>)
    \o [i \in 1..Len(LastMessages(chat_history)) |-> ForApi(LastMessages(chat_history)[i])]

\* What one run of the chat page did; `conversation` is what it passed to
\* chat_completion_with_history (Absent when it did not call it).
ChatRun(api_key, validation, service, calls, reqs, view, conversation, session_state, rerun) ==
    [api_key |-> api_key, validation |-> validation, service |-> service,
     calls |-> calls, reqs |-> reqs, view |-> view, conversation |-> conversation,
     session_state |-> session_state, rerun |-> rerun]

\* A send that stores the assistant's message whatever the result is.
SendUserInput_AlwaysReplies(session_state, service, w, selected_model) ==
    Bind(Append(session_state.chat_history.val,
                [role |-> "user", content |-> w.user_input.val,
                 files |-> Attachments(session_state.uploaded_files.val)]),
         LAMBDA chat_history :
      Bind(chat_completion_with_history(
               service, ListV(Conversation(w.system_message.val, chat_history)),
               selected_model, w.temperature, w.max_tokens, w.chat_answer),
           LAMBDA completed :
             [calls |-> <<[op |-> "chat_completion_with_history"]>>,
              reqs |-> completed.reqs,
              conversation |-> ListV(Conversation(w.system_message.val, chat_history)),
              result |-> completed.out.val,
              uploaded_files |-> ReadToEnd(session_state.uploaded_files.val),
              chat_history |->
                  Append(chat_history,
                         [role |-> "assistant",
                          content |-> IF completed.out.val.success
                                      THEN completed.out.val.response.val
                                      ELSE completed.out.val.error,
                          files |-> <<>>])]))

\* Lines 145-252: the user's input is stored, the conversation is built and
\* sent, and the reply is stored when the result is a success.
SendUserInput(session_state, service, w, selected_model) ==
    Bind(Append(session_state.chat_history.val,
                [role |-> "user", content |-> w.user_input.val,
                 files |-> Attachments(session_state.uploaded_files.val)]),
         LAMBDA chat_history :
      Bind(chat_completion_with_history(
               service, ListV(Conversation(w.system_message.val, chat_history)),
               selected_model, w.temperature, w.max_tokens, w.chat_answer),
           LAMBDA completed :
             [calls |-> <<[op |-> "chat_completion_with_history"]>>,
              reqs |-> completed.reqs,
              conversation |-> ListV(Conversation(w.system_message.val, chat_history)),
              result |-> completed.out.val,
              uploaded_files |-> ReadToEnd(session_state.uploaded_files.val),
              chat_history |->
                  IF completed.out.val.success
                  THEN Append(chat_history,
                              [role |-> "assistant",
                               content |-> completed.out.val.response.val,
                               files |-> <<>>])
                  ELSE chat_history]))

\* Lines 48-252: the run of the page once the credential is validated.  `w`
\* holds the widgets' values and what the transport answers; w.event is the
\* widget whose use caused the run ("load" for none).
ValidatedChatRun(session_state, api_key, validated, w) ==
    Bind(get_available_models(OpenAIService(api_key), w.models_answer), LAMBDA models :
      IF w.event = "clear"
      THEN ChatRun(api_key, validated.out.val, OpenAIService(api_key),
                   <<[op |-> "get_available_models"]>>, validated.reqs \o models.reqs,
                   "cleared", Absent,
                   [session_state EXCEPT !.chat_history = ListV(<<>>),
                                         !.uploaded_files = ListV(<<>>)],
                   TRUE)
      ELSE Bind([session_state EXCEPT
                    !.uploaded_files = ListV(AddUploads(@.val, w.widget_files))],
                LAMBDA synced :
        IF w.event = "remove" /\ w.widget_files # <<>>
        THEN ChatRun(api_key, validated.out.val, OpenAIService(api_key),
                     <<[op |-> "get_available_models"]>>, validated.reqs \o models.reqs,
                     "removed", Absent,
                     [synced EXCEPT !.uploaded_files = ListV(Pop(@.val, w.remove))], TRUE)
        ELSE IF w.event = "send" /\ Truthy(w.user_input)
        THEN Bind(SendUserInput(synced, OpenAIService(api_key), w,
                                SelectedModel(OfferedModels(models.out.val))),
                  LAMBDA sent :
                    ChatRun(api_key, validated.out.val, OpenAIService(api_key),
                            <<[op |-> "get_available_models"]>> \o sent.calls,
                            validated.reqs \o models.reqs \o sent.reqs,
                            IF sent.result.success THEN "reply" ELSE "error",
                            sent.conversation,
                            [synced EXCEPT !.chat_history = ListV(sent.chat_history),
                                           !.uploaded_files = ListV(sent.uploaded_files)], FALSE))
        ELSE ChatRun(api_key, validated.out.val, OpenAIService(api_key),
                     <<[op |-> "get_available_models"]>>, validated.reqs \o models.reqs,
                     "chat", Absent, synced, FALSE)))

\* render_chat_interface(): one run of the page.
render_chat_interface(session_state, w) ==
    Bind(get_openai_api_key(w.env_key, w.typed_key), LAMBDA api_key :
      IF ~Truthy(api_key)
      THEN ChatRun(api_key, NotAsked, NoService, <<>>, <<>>, "no key", Absent,
                   WithLists(session_state), FALSE)
      ELSE Bind(validate_openai_api_key(api_key, w.auth_answer), LAMBDA validated :
             IF validated.out.val # OPENAI_API_KEY_VALID
             THEN ChatRun(api_key, validated.out.val, NoService, <<>>, validated.reqs,
                          IF validated.out.val = "invalid" THEN "invalid key"
                          ELSE "validation error",
                          Absent, WithLists(session_state), FALSE)
             ELSE ValidatedChatRun(WithLists(session_state), api_key, validated, w)))

(***************************************************************************)
(* modules/compound_interest.py: the yearly breakdown.  A time is a float  *)
(* held in tenths of a year.  The amounts of an entry (Principal,          *)
(* Interest, Total) are floating-point powers and are not part of the      *)
(* model; an entry is its 'Year' label.                                    *)
(***************************************************************************)
\* int(time)
WholeYears(time) == time.val \div 10

\* Lines 32-41: one entry for each year of range(1, int(time) + 1).
WholeYearEntries(time) == [year \in 1..WholeYears(time) |-> [Year |-> IntV(year)]]

\* f"{time}": the time written as text.
TimeText(time) == IntToStr(time.val \div 10) \o <<".">> \o <<Digit(time.val % 10)>>

\* Lines 46-52: the entry of the last, partial year, labelled
\* f"{int(time)}.5".
FractionEntry(time) == [Year |-> StrV(IntToStr(WholeYears(time)) \o <<".", "5">>)]

\* Lines 28-55: the yearly breakdown of calculate_compound_interest.
calculate_compound_interest(time) ==
    IF time.val > 10 * WholeYears(time)
    THEN Append(WholeYearEntries(time), FractionEntry(time))
    ELSE WholeYearEntries(time)

(***************************************************************************)
(* Inputs: credentials, texts, and what the transport answers.             *)
(***************************************************************************)
Credentials == {None} \cup {StrV(s) : s \in StringsUpTo({" ", "k"}, MaxCredLen)}

\* Optional texts (a query, a message): None and every string over a blank
\* and a letter up to the bound.
Texts == {None} \cup {StrV(s) : s \in StringsUpTo({" ", "a"}, MaxQueryLen)}
SomeText == StrV(<<"a">>)

Boom == <<"b","o","o","m">>
ExcTexts == {Boom, INVALID_API_KEY_ERROR}
TransportErrors ==
    {Failure(cls, text) :
        cls \in {"ConnectionError", "Timeout", "RequestException", "RuntimeError"},
        text \in ExcTexts}

StatusCodes == {200, 401, 404, 429, 500}
JsonErrorClasses == {"JSONDecodeError", "ValueError"}
UnparsedBodies ==
    {EmptyBody(cls) : cls \in JsonErrorClasses} \cup {TextBody(cls) : cls \in JsonErrorClasses}
\* JSON that is no object: [] and [1].
NonObjectBodies == {JsonBody(ListV(<<>>)), JsonBody(ListV(<<IntV(1)>>))}

AuthBodies ==
    UnparsedBodies \cup NonObjectBodies \cup {JsonBody(DictV([success |-> IntV(1)]))}
AuthAnswers ==
    TransportErrors \cup {Response(s, b) : s \in StatusCodes, b \in AuthBodies}

\* Raw movies: a full record, one with no fields, one whose fields are all
\* null, and one whose overview is a number.
FullMovie ==
    DictV([id |-> IntV(27205),
           title |-> StrV(<<"I","n","c","e","p","t","i","o","n">>),
           overview |-> StrV(<<"A"," ","t","h","i","e","f">>),
           poster_path |-> StrV(<<"/","x",".","j","p","g">>),
           release_date |-> StrV(<<"2","0","1","0","-","0","7","-","1","6">>),
           vote_average |-> FloatV(88),
           vote_count |-> IntV(5)])
BareMovie == DictV(RawMovie)
NullMovie ==
    DictV([id |-> None, title |-> None, overview |-> None, poster_path |-> None,
           release_date |-> None, vote_average |-> None, vote_count |-> None])
OddMovie == DictV([RawMovie EXCEPT !.overview = IntV(7),
                                   !.poster_path = StrV(<<"/","x",".","j","p","g">>),
                                   !.release_date = IntV(2010)])

ResultLists ==
    {Absent, None, ListV(<<>>), ListV(<<FullMovie>>), ListV(<<BareMovie, FullMovie>>),
     ListV(<<FullMovie, FullMovie>>), ListV(<<NullMovie>>), ListV(<<OddMovie>>),
     ListV(<<None>>)}
SearchObjects ==
    {[TmdbObject EXCEPT !.results = r] : r \in ResultLists}
    \cup {[TmdbObject EXCEPT !.results = r, !.page = IntV(2), !.total_pages = IntV(3),
                             !.total_results = IntV(41)] : r \in ResultLists}
TmdbErrorObjects ==
    {[TmdbObject EXCEPT !.status_message = m] :
        m \in {None, StrV(Boom), StrV(INVALID_API_KEY_ERROR)}}
SearchBodies ==
    UnparsedBodies \cup NonObjectBodies
    \cup {JsonBody(DictV(o)) : o \in SearchObjects \cup TmdbErrorObjects}
SearchAnswers ==
    TransportErrors \cup {Response(s, b) : s \in StatusCodes, b \in SearchBodies}

ImgBase == StrV(<<"h","t","t","p","s",":","/","/","i","m","g","/">>)
ConfigObjects ==
    {TmdbObject, [TmdbObject EXCEPT !.change_keys = ListV(<<>>)]}
    \cup {[TmdbObject EXCEPT !.images = i] :
            i \in {None, NoImages, DictV([base_url |-> None]), DictV([base_url |-> ImgBase])}}
ConfigAnswers ==
    {Failure("ConnectionError", Boom), Failure("RuntimeError", Boom),
     Response(500, JsonBody(DictV([TmdbObject EXCEPT !.images = DictV([base_url |-> ImgBase])]))),
     Response(200, TextBody("ValueError")), Response(200, EmptyBody("JSONDecodeError"))}
    \cup {Response(200, b) : b \in NonObjectBodies}
    \cup {Response(200, JsonBody(DictV(o))) : o \in ConfigObjects}

GoodConfig == Response(200, JsonBody(DictV([TmdbObject EXCEPT !.images = DictV([base_url |-> ImgBase])])))
GoodSearch ==
    Response(200, JsonBody(DictV([TmdbObject EXCEPT !.results = ListV(<<FullMovie>>),
                                                    !.page = IntV(1), !.total_pages = IntV(1),
                                                    !.total_results = IntV(1)])))

\* Overviews around the limit; the character at i is the last digit of i, so
\* that a cut at the wrong place shows.
OverviewText(n) == [i \in 1..n |-> Digit(i % 10)]
OverviewLengths == {1, OverviewLimit - 1, OverviewLimit, OverviewLimit + 1, OverviewLimit + 2}
OverviewMovies ==
    {DictV([RawMovie EXCEPT !.overview = StrV(OverviewText(n))]) : n \in OverviewLengths}
\* Release dates: a date, a bare year, words, a dash, the empty string, a number.
ReleaseDates ==
    {StrV(<<"2","0","1","0","-","0","7","-","1","6">>), StrV(<<"2","0","1","0">>),
     StrV(<<"s","o","o","n">>), StrV(<<"-">>), StrV(<<>>), None, IntV(2010)}
DateMovies == {DictV([RawMovie EXCEPT !.release_date = d]) : d \in ReleaseDates}
EdgeSearches ==
    {Response(200, JsonBody(DictV([TmdbObject EXCEPT !.results = ListV(<<m>>)]))) :
        m \in OverviewMovies \cup DateMovies}

Pages == {1, 2}

\* The calls of search_movies: every query and page against a transport that
\* works or is down, one query against every answer of the transport, and
\* one query against results with overviews and release dates of every kind.
SearchCalls ==
    {[query |-> q, page |-> p, answers |-> [search |-> s, config |-> GoodConfig]] :
        q \in Texts, p \in Pages, s \in {GoodSearch, Failure("Timeout", Boom)}}
    \cup {[query |-> SomeText, page |-> 1, answers |-> [search |-> s, config |-> c]] :
            s \in SearchAnswers, c \in ConfigAnswers}
    \cup {[query |-> SomeText, page |-> 1, answers |-> [search |-> s, config |-> GoodConfig]] :
            s \in EdgeSearches}

PosterPaths == {None, StrV(<<>>), StrV(<<"/","x",".","j","p","g">>)}
PosterSizes == {DefaultPosterSize, StrV(<<"o","r","i","g","i","n","a","l">>)}

\* Bodies of the OpenAI API.
Hello == StrV(<<"H","i">>)
Stop == StrV(<<"s","t","o","p">>)
Gpt4 == StrV(<<"g","p","t","-","4">>)
GoodChoice == DictV([message |-> DictV([content |-> Hello]), finish_reason |-> Stop])
ChoiceLists ==
    {Absent, None, ListV(<<>>), ListV(<<GoodChoice>>),
     ListV(<<DictV([message |-> DictV([content |-> Hello]), finish_reason |-> Absent])>>),
     ListV(<<DictV(Choice)>>), ListV(<<DictV([Choice EXCEPT !.message = None])>>),
     ListV(<<DictV([Choice EXCEPT !.message = DictV(ChoiceMessage)])>>),
     ListV(<<None>>)}
ChatObjects ==
    {[OpenAIObject EXCEPT !.choices = c] : c \in ChoiceLists}
    \cup {[OpenAIObject EXCEPT !.choices = ListV(<<GoodChoice>>), !.model = Gpt4,
                               !.usage = DictV([total_tokens |-> IntV(9)])]}
OpenAIErrorObjects ==
    {[OpenAIObject EXCEPT !.error = e] :
        e \in {None, StrV(Boom), DictV(ErrorObject),
               DictV([message |-> None]), DictV([message |-> StrV(Boom)]),
               DictV([message |-> StrV(INVALID_API_KEY_ERROR)])}}
ModelLists ==
    {None, ListV(<<>>),
     ListV(<<DictV([id |-> Gpt4]), DictV([id |-> StrV(<<"d","a","l","l","-","e">>)]),
             DictV([id |-> StrV(<<"c","l","a","u","d","e","-","3">>)])>>),
     ListV(<<DictV(ModelObject)>>), ListV(<<DictV([id |-> None])>>), ListV(<<None>>)}
ModelsObjects == {[OpenAIObject EXCEPT !.data = d] : d \in ModelLists}
OpenAIBodies ==
    UnparsedBodies \cup NonObjectBodies
    \cup {JsonBody(DictV(o)) : o \in ChatObjects \cup OpenAIErrorObjects \cup ModelsObjects}
OpenAIAnswers ==
    TransportErrors \cup {Response(s, b) : s \in StatusCodes, b \in OpenAIBodies}
GoodChat == Response(200, JsonBody(DictV([OpenAIObject EXCEPT !.choices = ListV(<<GoodChoice>>)])))

SystemMessages == {None, StrV(<<>>), StrV(<<" ">>), StrV(<<"s">>)}
Models == {DefaultModel, Gpt4}
MaxTokens == {None, IntV(0), IntV(5)}
DefaultTemperature == FloatV(7)

\* The calls of chat_completion: every message, system message and token
\* limit against a transport that works or is down, and one message against
\* every answer of the transport.
ChatCalls ==
    {[message |-> m, system_message |-> sm, model |-> md, max_tokens |-> mt, answer |-> a] :
        m \in Texts, sm \in SystemMessages, md \in Models, mt \in MaxTokens,
        a \in {GoodChat, Failure("Timeout", Boom)}}
    \cup {[message |-> SomeText, system_message |-> None, model |-> DefaultModel,
           max_tokens |-> None, answer |-> a] : a \in OpenAIAnswers}

\* Conversation histories: None and every list of at most MaxHistoryLen messages.
ChatMessages ==
    {[role |-> r, content |-> <<"a">>] : r \in {"system", "user", "assistant"}}
Histories == {None} \cup {ListV(h) : h \in StringsUpTo(ChatMessages, MaxHistoryLen)}
SomeHistory == ListV(<<[role |-> "user", content |-> <<"a">>]>>)

HistoryCalls ==
    {[conversation_history |-> h, model |-> md, max_tokens |-> mt, answer |-> a] :
        h \in Histories, md \in Models, mt \in MaxTokens,
        a \in {GoodChat, Failure("Timeout", Boom)}}
    \cup {[conversation_history |-> SomeHistory, model |-> DefaultModel,
           max_tokens |-> None, answer |-> a] : a \in OpenAIAnswers}

\* Raw movies handed to the page formatter: overviews around the limit,
\* release dates of every kind, and the raw movies of the searches.
InvalidDate == StrV(<<"i","n","v","a","l","i","d","-","d","a","t","e">>)
PageOverviews ==
    {StrV(OverviewText(n)) :
        n \in {1, PageOverviewLimit - 1, PageOverviewLimit, PageOverviewLimit + 1,
               PageOverviewLimit + 2}}
    \cup {Absent, None, StrV(<<>>), IntV(7)}
PageReleaseDates == ReleaseDates \cup {InvalidDate, Absent}
PageMovies ==
    {DictV([RawMovie EXCEPT !.overview = o, !.release_date = d]) :
        o \in PageOverviews, d \in PageReleaseDates}
    \cup {FullMovie, NullMovie, None}
PagePosterUrls == {None, StrV(ImgBase.val \o DefaultPosterSize.val)}

\* Times of the calculator, in tenths of a year, from 0 to MaxTime tenths.
Times == {FloatV(tenths) : tenths \in 0..MaxTime}

(***************************************************************************)
(* The state machine: one service object under test and the call just made *)
(* (its inputs, what the transport was set to answer, its outcome and the  *)
(* HTTP requests it issued), until the caller takes the result.  `fetches` *)
(* counts the requests the live TmdbService object has sent to the         *)
(* configuration endpoint (line 158), up to MaxFetches.                    *)
(***************************************************************************)
\* The requests among reqs that go to the configuration endpoint.
ConfigFetches(api_key, reqs) ==
    Cardinality({i \in 1..Len(reqs) : reqs[i] = ConfigRequest(api_key)})
Counted(n) == IF n > MaxFetches THEN MaxFetches ELSE n
NoCall == [op |-> "none"]

\* Inputs of the pages.  A credential comes from the environment or from the
\* text input; the validator's probe is answered by 200, by 401, by a body
\* that is no JSON, or not at all.
PageKey == StrV(<<"k">>)
KeySources ==
    {[env_key |-> None, typed_key |-> StrV(<<>>)],
     [env_key |-> StrV(<<>>), typed_key |-> StrV(<<>>)],
     [env_key |-> PageKey, typed_key |-> StrV(<<>>)],
     [env_key |-> None, typed_key |-> PageKey]}
GoodAuth == Response(200, JsonBody(DictV([success |-> IntV(1)])))
PageAuthAnswers ==
    {GoodAuth, Response(401, JsonBody(DictV([success |-> IntV(1)]))),
     Response(200, TextBody("ValueError")), Failure("Timeout", Boom)}

\* Searches of the movie page: one page of results, page p of TotalPages,
\* no results, a movie whose votes are null, a server error, no answer.
TotalPages == 3
PagedSearch(p) ==
    Response(200, JsonBody(DictV([TmdbObject EXCEPT !.results = ListV(<<FullMovie>>),
                                                    !.page = IntV(p),
                                                    !.total_pages = IntV(TotalPages),
                                                    !.total_results = IntV(TotalPages)])))
PageSearches ==
    {GoodSearch, PagedSearch(1), PagedSearch(2),
     Response(200, JsonBody(DictV([TmdbObject EXCEPT !.results = ListV(<<>>)]))),
     Response(200, JsonBody(DictV([TmdbObject EXCEPT !.results = ListV(<<NullMovie>>)]))),
     Response(500, EmptyBody("ValueError")), Failure("Timeout", Boom)}
PageQueries == {StrV(<<>>), StrV(<<" ">>), StrV(<<"a">>)}

\* The page a pagination button asks for, 0 when the button is disabled or
\* not on the page (lines 127-148).
TargetPage(pagination, button) ==
    CASE button = "previous" /\ pagination.current_page > 1 -> pagination.current_page - 1
      [] button = "next" /\ pagination.current_page < pagination.total_pages ->
            pagination.current_page + 1
      [] button = "first" /\ pagination.current_page > 1 -> 1
      [] button = "last" /\ pagination.current_page < pagination.total_pages ->
            pagination.total_pages
      [] OTHER -> 0
PaginationButtons(pagination) ==
    {b \in {"previous", "next", "first", "last"} : TargetPage(pagination, b) # 0}

\* The runs of the movie page: the page loaded or searched with every
\* credential and validator answer; a search of every query against every
\* answer; a press of a pagination button that is on the page.
MoviePageRuns(pagination) ==
    {[key |-> k, auth_answer |-> a, event |-> e, search_query |-> SomeText,
      search |-> GoodSearch] :
        k \in KeySources, a \in PageAuthAnswers, e \in {"load", "search"}}
    \cup {[key |-> [env_key |-> PageKey, typed_key |-> StrV(<<>>)], auth_answer |-> GoodAuth,
           event |-> "search", search_query |-> q, search |-> s] :
            q \in PageQueries, s \in PageSearches}
    \cup {[key |-> [env_key |-> PageKey, typed_key |-> StrV(<<>>)], auth_answer |-> GoodAuth,
           event |-> b, search_query |-> SomeText, search |-> GoodSearch] :
            b \in PaginationButtons(pagination)}

\* Inputs of the chat page.  The uploader holds no file or one text file; a
\* file once selected stays selected.  In each run the uploader hands the
\* page a new, unread object for the file (uploader "new") or the object
\* it handed it before (uploader "same"), as the Streamlit in use does.  The model list is answered by a list
\* with a chat model, by an empty list, or not at all; a completion by a
\* reply, by a server error, or not at all.
TextFile ==
    [name |-> <<"f">>, type |-> <<"t","e","x","t","/","p","l","a","i","n">>,
     content |-> <<"x">>, pos |-> 0]
PageSystemMessages == {StrV(<<>>), StrV(<<" ">>), StrV(<<" ", "s">>)}
PageModelsAnswers ==
    {Response(200, JsonBody(DictV([OpenAIObject EXCEPT !.data = ListV(<<DictV([id |-> Gpt4])>>)]))),
     Response(200, JsonBody(DictV([OpenAIObject EXCEPT !.data = ListV(<<>>)]))),
     Failure("Timeout", Boom)}
GoodModels ==
    Response(200, JsonBody(DictV([OpenAIObject EXCEPT !.data = ListV(<<DictV([id |-> Gpt4])>>)])))
PageChatAnswers ==
    {GoodChat, Response(500, EmptyBody("ValueError")), Failure("Timeout", Boom)}
PageMaxTokens == IntV(1000)
Widgets(widget_files) ==
    [env_key |-> PageKey, typed_key |-> StrV(<<>>), auth_answer |-> GoodAuth,
     models_answer |-> GoodModels, event |-> "load", system_message |-> StrV(<<>>),
     temperature |-> DefaultTemperature, max_tokens |-> PageMaxTokens,
     widget_files |-> widget_files, remove |-> 1, user_input |-> None,
     chat_answer |-> GoodChat]

\* The sends of a history that got no reply.
FailedSends(chat_history) ==
    Cardinality({i \in 1..Len(chat_history) : chat_history[i].role = "user"})
    - Cardinality({i \in 1..Len(chat_history) : chat_history[i].role = "assistant"})

\* The sends of a history that carry files.
AttachedSends(chat_history) ==
    Cardinality({i \in 1..Len(chat_history) : chat_history[i].files # <<>>})

\* The runs of the chat page that follow a use of a widget: a message sent
\* with every credential and validator answer; the page loaded, a file
\* selected, a file removed, the history cleared; a message sent with
\* every system message and completion answer, and with every answer for
\* the model list.  At most MaxFailedSends sends of a history fail, and
\* a file is removed while fewer than MaxAttachedSends of them carry files.
ChatPageRuns(widget_files, chat_history) ==
    {[Widgets(widget_files) EXCEPT !.env_key = ka[1].env_key,
                                   !.typed_key = ka[1].typed_key,
                                   !.auth_answer = ka[2], !.event = "send",
                                   !.user_input = SomeText] :
        ka \in {x \in KeySources \X PageAuthAnswers :
                   Truthy(get_openai_api_key(x[1].env_key, x[1].typed_key))
                   \/ x[2] = GoodAuth}}
    \cup {Widgets(widget_files)}
    \cup (IF widget_files = <<>> THEN {[Widgets(<<TextFile>>) EXCEPT !.event = "select"]}
          ELSE {})
    \cup {[Widgets(widget_files) EXCEPT !.event = e] :
            e \in {"clear"}
                \cup (IF widget_files # <<>> /\ AttachedSends(chat_history) < MaxAttachedSends
                      THEN {"remove"} ELSE {})}
    \cup {[Widgets(widget_files) EXCEPT !.event = "send", !.user_input = SomeText,
                                        !.system_message = sm] :
            sm \in PageSystemMessages}
    \cup {[Widgets(widget_files) EXCEPT !.event = "send", !.user_input = SomeText,
                                        !.chat_answer = c] :
            c \in {x \in PageChatAnswers :
                      x = GoodChat \/ FailedSends(chat_history) < MaxFailedSends}}
    \cup {[Widgets(widget_files) EXCEPT !.event = "send", !.user_input = SomeText,
                                        !.models_answer = m] : m \in PageModelsAnswers}

\* What the browser holds between runs: the page it is on, the pagination
\* row the movie page shows, the page a pagination button was pressed for
\* and no search has asked for yet (0 for none), the files selected in the
\* chat page's uploader, and whether the last run ended in st.rerun().
BlankScreen ==
    [page |-> "none", pagination |-> NoPagination, awaited |-> 0, widget_files |-> <<>>,
     uploader |-> "none", rerun |-> FALSE]

\* The file objects the uploader hands the next run: new ones, or the same
\* ones, which the session list holds too once they are added to it and
\* which are then where the page's reads left them.
NextWidgetFiles(uploader, widget_files, uploaded_files) ==
    [i \in 1..Len(widget_files) |->
        IF uploader # "same" THEN [widget_files[i] EXCEPT !.pos = 0]
        ELSE IF \E j \in 1..Len(uploaded_files) : SameUpload(uploaded_files[j], widget_files[i])
        THEN uploaded_files[CHOOSE j \in 1..Len(uploaded_files) :
                               SameUpload(uploaded_files[j], widget_files[i])]
        ELSE widget_files[i]]

Init ==
    /\ svc = NoService
    /\ call = NoCall
    /\ fetches = 0
    /\ st_session_state = NewSession
    /\ screen = BlankScreen

ValidateTmdbApiKey ==
    /\ call = NoCall
    /\ \E api_key \in Credentials, answer \in AuthAnswers :
        \E r \in {validate_tmdb_api_key(api_key, answer)} :
           /\ call' = [op |-> "validate_tmdb_api_key", api_key |-> api_key,
                       answer |-> answer, out |-> r.out, reqs |-> r.reqs]
           /\ UNCHANGED <<svc, fetches, st_session_state, screen>>

NewTmdbService ==
    /\ call = NoCall
    /\ \E api_key \in Credentials :
        /\ svc' = TmdbService(api_key)
        /\ call' = [op |-> "TmdbService", api_key |-> api_key]
        /\ fetches' = 0
        /\ UNCHANGED <<st_session_state, screen>>

SearchMovies ==
    /\ call = NoCall
    /\ svc.cls = "TmdbService"
    /\ \E c \in SearchCalls :
        \E r \in {search_movies(svc, c.query, c.page, c.answers)} :
           /\ call' = [op |-> "search_movies", self |-> svc, query |-> c.query,
                       page |-> c.page, answers |-> c.answers,
                       out |-> r.out, reqs |-> r.reqs]
           /\ svc' = [svc EXCEPT !._config_cache = r.cache]
           /\ fetches' = Counted(fetches + ConfigFetches(svc.api_key, r.reqs))
           /\ UNCHANGED <<st_session_state, screen>>

GetPosterUrl ==
    /\ call = NoCall
    /\ svc.cls = "TmdbService"
    /\ \E poster_path \in PosterPaths, size \in PosterSizes, answer \in ConfigAnswers :
        \E r \in {GetMoviePosterUrl(svc, poster_path, size, answer)} :
           /\ call' = [op |-> "get_movie_poster_url", self |-> svc,
                       poster_path |-> poster_path, size |-> size, answer |-> answer,
                       out |-> Return(r.val), reqs |-> r.reqs]
           /\ svc' = [svc EXCEPT !._config_cache = r.cache]
           /\ fetches' = Counted(fetches + ConfigFetches(svc.api_key, r.reqs))
           /\ UNCHANGED <<st_session_state, screen>>

NewOpenAIService ==
    /\ call = NoCall
    /\ \E api_key \in Credentials :
        /\ svc' = OpenAIService(api_key)
        /\ call' = [op |-> "OpenAIService", api_key |-> api_key]
        /\ fetches' = 0
        /\ UNCHANGED <<st_session_state, screen>>

ChatCompletion ==
    /\ call = NoCall
    /\ svc.cls = "OpenAIService"
    /\ \E c \in ChatCalls :
        \E r \in {chat_completion(svc, c.message, c.system_message, c.model,
                                 DefaultTemperature, c.max_tokens, c.answer)} :
           /\ call' = [op |-> "chat_completion", self |-> svc, message |-> c.message,
                       system_message |-> c.system_message, model |-> c.model,
                       max_tokens |-> c.max_tokens, answer |-> c.answer,
                       out |-> r.out, reqs |-> r.reqs]
           /\ UNCHANGED <<svc, fetches, st_session_state, screen>>

ChatCompletionWithHistory ==
    /\ call = NoCall
    /\ svc.cls = "OpenAIService"
    /\ \E c \in HistoryCalls :
        \E r \in {chat_completion_with_history(svc, c.conversation_history, c.model,
                                              DefaultTemperature, c.max_tokens, c.answer)} :
           /\ call' = [op |-> "chat_completion_with_history", self |-> svc,
                       conversation_history |-> c.conversation_history,
                       model |-> c.model, max_tokens |-> c.max_tokens,
                       answer |-> c.answer, out |-> r.out, reqs |-> r.reqs]
           /\ UNCHANGED <<svc, fetches, st_session_state, screen>>

GetAvailableModels ==
    /\ call = NoCall
    /\ svc.cls = "OpenAIService"
    /\ \E answer \in OpenAIAnswers :
        \E r \in {get_available_models(svc, answer)} :
           /\ call' = [op |-> "get_available_models", self |-> svc, answer |-> answer,
                       out |-> r.out, reqs |-> r.reqs]
           /\ UNCHANGED <<svc, fetches, st_session_state, screen>>

FormatMovieDataForPage ==
    /\ call = NoCall
    /\ \E raw_movie \in PageMovies, poster_url \in PagePosterUrls :
           call' = [op |-> "format_movie_data", raw_movie |-> raw_movie,
                    poster_url |-> poster_url,
                    out |-> format_movie_data(raw_movie, poster_url)]
    /\ UNCHANGED <<svc, fetches, st_session_state, screen>>

CalculateCompoundInterest ==
    /\ call = NoCall
    /\ \E time \in Times :
           call' = [op |-> "calculate_compound_interest", time |-> time,
                    yearly_breakdown |-> calculate_compound_interest(time)]
    /\ UNCHANGED <<svc, fetches, st_session_state, screen>>

\* The caller takes the result of the call; the service object lives on.
TakeResult ==
    /\ call # NoCall
    /\ call' = NoCall
    /\ UNCHANGED <<svc, fetches, st_session_state, screen>>

Next ==
    \/ TakeResult
    \/ ValidateTmdbApiKey
    \/ NewTmdbService
    \/ SearchMovies
    \/ GetPosterUrl
    \/ NewOpenAIService
    \/ ChatCompletion
    \/ ChatCompletionWithHistory
    \/ GetAvailableModels
    \/ FormatMovieDataForPage
    \/ CalculateCompoundInterest

Spec == Init /\ [][Next]_vars

(***************************************************************************)
(* The pages.  One step is one run of a page's function, which Streamlit   *)
(* starts when the page is opened and after every use of a widget.  A      *)
(* browser session stays on the page it opened: the pages share only       *)
(* st.session_state, of which each reads its own keys.                     *)
(***************************************************************************)
\* A run of the movie page.  The run that follows a press of a pagination
\* button renders the form only (the Search button reports no click in it),
\* so the pressed button is not rendered and its press is not reported to
\* lines 128-148; what is left of the press is the page it asked for.
RenderMovieSearch ==
    /\ screen.page \in {"none", "movie"}
    /\ \E i \in MoviePageRuns(screen.pagination) :
        \E r \in {render_movie_search(st_session_state, i.key.env_key, i.key.typed_key,
                                      i.auth_answer, i.event, i.search_query,
                                      [search |-> i.search, config |-> GoodConfig])} :
           /\ call' = [op |-> "render_movie_search", event |-> i.event,
                       search_query |-> i.search_query, awaited |-> screen.awaited,
                       run |-> r]
           /\ st_session_state' = r.session_state
           /\ screen' = [page |-> "movie", pagination |-> r.pagination,
                         awaited |-> IF TargetPage(screen.pagination, i.event) # 0
                                     THEN TargetPage(screen.pagination, i.event)
                                     ELSE IF r.calls # <<>> THEN 0 ELSE screen.awaited,
                         widget_files |-> <<>>, uploader |-> "none", rerun |-> FALSE]
           /\ UNCHANGED <<svc, fetches>>

\* A run of the chat page; the run that follows st.rerun() is caused by no
\* widget.  A message is sent while the history has fewer than
\* MaxChatLen messages.
RenderChatInterface ==
    /\ screen.page \in {"none", "chat"}
    /\ \E w \in (IF screen.rerun THEN {Widgets(screen.widget_files)}
                  ELSE ChatPageRuns(screen.widget_files,
                                    WithLists(st_session_state).chat_history.val)) :
        /\ w.event = "send" => Len(WithLists(st_session_state).chat_history.val) < MaxChatLen
        /\ \E r \in {render_chat_interface(st_session_state, w)},
              uploader \in (IF w.event = "select" THEN {"new", "same"}
                            ELSE {screen.uploader}) :
           /\ call' = [op |-> "render_chat_interface", w |-> w,
                       chat_history |-> WithLists(st_session_state).chat_history.val,
                       run |-> r]
           /\ st_session_state' = r.session_state
           /\ screen' = [page |-> "chat", pagination |-> NoPagination, awaited |-> 0,
                         widget_files |->
                             NextWidgetFiles(uploader, w.widget_files,
                                             r.session_state.uploaded_files.val),
                         uploader |-> uploader, rerun |-> r.rerun]
           /\ UNCHANGED <<svc, fetches>>

PageNext ==
    \/ RenderMovieSearch
    \/ RenderChatInterface

PageSpec == Init /\ [][PageNext]_vars

(***************************************************************************)
(* The claims.  Each is stated over the call just made: its inputs, what   *)
(* the transport was set to answer, its outcome and the requests issued.   *)
(***************************************************************************)
NoCredential(api_key) == api_key = None \/ api_key = StrV(<<>>)
HasCredential(api_key) == api_key.t = "str" /\ Len(api_key.val) > 0
Answered(answer, status) == answer.k = "response" /\ answer.status_code = status
Parseable(answer) == answer.k = "response" /\ answer.body.content = "json"
OnlySpaces(text) ==
    text = None \/ (text.t = "str" /\ \A i \in 1..Len(text.val) : IsSpace(text.val[i]))
ServiceOps ==
    {"search_movies", "chat_completion", "chat_completion_with_history",
     "get_available_models"}
Failed(message) == call.out = Return(Fail(message))

\* C1: with a credential that is None or '', validate_tmdb_api_key returns
\* 'error', and search_movies, chat_completion, chat_completion_with_history
\* and get_available_models return the failure 'API key is required'; none of
\* these calls issues an HTTP request.
C1_NoCredentialNoRequest ==
    /\ (call.op = "validate_tmdb_api_key" /\ NoCredential(call.api_key))
          => call.out = Return(TMDB_API_KEY_ERROR) /\ call.reqs = <<>>
    /\ (call.op \in ServiceOps /\ NoCredential(call.self.api_key))
          => Failed(API_KEY_REQUIRED_ERROR) /\ call.reqs = <<>>

\* A search on a service without a credential, against a transport that would
\* have answered with results, failed without a request.
C1_Witness ==
    /\ call.op = "search_movies"
    /\ call.self.api_key = None
    /\ call.answers.search = GoodSearch
    /\ Failed(API_KEY_REQUIRED_ERROR)
    /\ call.reqs = <<>>

\* C2: with a non-empty credential validate_tmdb_api_key returns one of
\* 'valid', 'invalid', 'error': 'valid' for a 200 answer whose body parses,
\* 'invalid' for a 401 answer, 'error' for every other status and for every
\* exception of the transport.
C2_ValidateMapping ==
    (call.op = "validate_tmdb_api_key" /\ HasCredential(call.api_key)) =>
        /\ call.out.k = "return"
        /\ call.out.val \in {TMDB_API_KEY_VALID, TMDB_API_KEY_INVALID, TMDB_API_KEY_ERROR}
        /\ (Answered(call.answer, 200) /\ Parseable(call.answer))
              => call.out.val = TMDB_API_KEY_VALID
        /\ Answered(call.answer, 401) => call.out.val = TMDB_API_KEY_INVALID
        /\ (call.answer.k = "response" /\ call.answer.status_code \notin {200, 401})
              => call.out.val = TMDB_API_KEY_ERROR
        /\ call.answer.k = "raise" => call.out.val = TMDB_API_KEY_ERROR

\* A key was validated against a server that answered 500 and came out 'error'.
C2_Witness ==
    /\ call.op = "validate_tmdb_api_key"
    /\ HasCredential(call.api_key)
    /\ Answered(call.answer, 500)
    /\ call.out = Return(TMDB_API_KEY_ERROR)
    /\ Len(call.reqs) = 1

\* C3: a 200 answer whose body does not parse as JSON makes
\* validate_tmdb_api_key return 'error', never 'valid'.
C3_UnparseableIsError ==
    (/\ call.op = "validate_tmdb_api_key"
     /\ HasCredential(call.api_key)
     /\ Answered(call.answer, 200)
     /\ ~Parseable(call.answer))
        => call.out = Return(TMDB_API_KEY_ERROR)

\* A key was validated against a 200 answer carrying text that is not JSON.
C3_Witness ==
    /\ call.op = "validate_tmdb_api_key"
    /\ HasCredential(call.api_key)
    /\ call.answer = Response(200, TextBody("JSONDecodeError"))
    /\ call.out = Return(TMDB_API_KEY_ERROR)

\* The call passed its input checks: the service holds a credential and the
\* query, the message or the history is not empty.
Requesting ==
    \/ /\ call.op = "search_movies"
       /\ HasCredential(call.self.api_key)
       /\ ~OnlySpaces(call.query)
    \/ /\ call.op = "chat_completion"
       /\ HasCredential(call.self.api_key)
       /\ ~OnlySpaces(call.message)
    \/ /\ call.op = "chat_completion_with_history"
       /\ HasCredential(call.self.api_key)
       /\ call.conversation_history.t = "list"
       /\ Len(call.conversation_history.val) > 0
\* What the transport answered the request of the call with.
TheAnswer == IF call.op = "search_movies" THEN call.answers.search ELSE call.answer

\* C4: on a 401 answer validate_tmdb_api_key returns 'invalid', and
\* search_movies, chat_completion and chat_completion_with_history fail with
\* 'Invalid API key'; no other status and no exception of the transport gives
\* that message.
C4_UnauthorizedIsDistinct ==
    /\ (/\ call.op = "validate_tmdb_api_key"
        /\ HasCredential(call.api_key)
        /\ Answered(call.answer, 401))
          => call.out = Return(TMDB_API_KEY_INVALID)
    /\ Requesting => (Answered(TheAnswer, 401) <=> Failed(INVALID_API_KEY_ERROR))

\* A conversation was sent and answered 401: the failure is 'Invalid API key'.
C4_Witness ==
    /\ call.op = "chat_completion_with_history"
    /\ Requesting
    /\ Answered(call.answer, 401)
    /\ Failed(INVALID_API_KEY_ERROR)
    /\ Len(call.reqs) = 1

\* C5: on a service holding a credential, search_movies with a query that is
\* None, empty or only whitespace fails with 'Query cannot be empty' and
\* issues no HTTP request.
C5_BlankQueryNoRequest ==
    (/\ call.op = "search_movies"
     /\ HasCredential(call.self.api_key)
     /\ OnlySpaces(call.query))
        => Failed(QueryEmptyError) /\ call.reqs = <<>>

\* A query of two blanks was searched for on a service holding a credential.
C5_Witness ==
    /\ call.op = "search_movies"
    /\ call.self.api_key = StrV(<<"k">>)
    /\ call.query = StrV(<<" ", " ">>)
    /\ Failed(QueryEmptyError)
    /\ call.reqs = <<>>

\* The outcome is a failure result whose message contains `text`.
FailedWith(text) ==
    /\ call.out.k = "return"
    /\ ~call.out.val.success
    /\ Contains(call.out.val.error, text)
HttpStatus(answer) == HttpPrefix \o IntToStr(answer.status_code)
IsObject(answer) == Parseable(answer) /\ answer.body.json.t = "dict"

\* The status_message the body of a TMDB answer supplies, 'HTTP {status}'
\* when it supplies none.
StatusMessage(answer) ==
    IF IsObject(answer) /\ answer.body.json.val.status_message.t = "str"
    THEN answer.body.json.val.status_message.val
    ELSE HttpStatus(answer)

\* C6: search_movies with a credential and a non-empty query fails with
\* 'Invalid API key' on 401; on every other status but 200 it fails with
\* 'API error: ' and the status_message of the body, or 'HTTP {status}' when
\* the body supplies none, whatever the body is; on an exception of the
\* transport it fails with a message containing the exception's text.
C6_SearchErrorMapping ==
    (call.op = "search_movies" /\ Requesting) =>
        /\ Answered(TheAnswer, 401) => Failed(INVALID_API_KEY_ERROR)
        /\ (TheAnswer.k = "response" /\ TheAnswer.status_code \notin {200, 401})
              => Failed(ApiErrorPrefix \o StatusMessage(TheAnswer))
        /\ TheAnswer.k = "raise" => FailedWith(TheAnswer.text)

\* C7: on a service holding a credential, chat_completion_with_history with
\* a history that is None or an empty list fails with 'Conversation history
\* cannot be empty' and issues no HTTP request.
C7_EmptyHistoryNoRequest ==
    (/\ call.op = "chat_completion_with_history"
     /\ HasCredential(call.self.api_key)
     /\ call.conversation_history \in {None, ListV(<<>>)})
        => Failed(HistoryEmptyError) /\ call.reqs = <<>>

\* An empty list was sent on a service holding a credential, against a
\* transport that would have answered with a completion.
C7_Witness ==
    /\ call.op = "chat_completion_with_history"
    /\ call.self.api_key = StrV(<<"k">>)
    /\ call.conversation_history = ListV(<<>>)
    /\ call.answer = GoodChat
    /\ Failed(HistoryEmptyError)
    /\ call.reqs = <<>>

ChatOps == {"chat_completion", "chat_completion_with_history"}

\* The answer is a 200 whose JSON object carries no choices: the field is
\* absent or an empty list.
NoChoices(answer) ==
    /\ Answered(answer, 200)
    /\ IsObject(answer)
    /\ answer.body.json.val.choices \in {Absent, ListV(<<>>)}

\* C8: a 200 chat answer without choices (the field absent or an empty list)
\* makes chat_completion and chat_completion_with_history return a success
\* whose response is 'No response generated'.
C8_NoChoicesIsPlaceholder ==
    (call.op \in ChatOps /\ Requesting /\ NoChoices(call.answer)) =>
        /\ call.out.k = "return"
        /\ call.out.val.success
        /\ call.out.val.response = StrV(NoResponseGenerated)

\* The message the error object of an OpenAI answer supplies, 'HTTP {status}'
\* when it supplies none.
ProviderMessage(answer) ==
    IF /\ IsObject(answer)
       /\ answer.body.json.val.error.t = "dict"
       /\ answer.body.json.val.error.val.message.t = "str"
    THEN answer.body.json.val.error.val.message.val
    ELSE HttpStatus(answer)

\* C9: chat_completion and chat_completion_with_history with valid inputs
\* fail with 'Invalid API key' on 401, with the rate-limit message on 429,
\* with 'API error: ' and the provider's message or 'HTTP {status}' on every
\* other status but 200, and with a message containing the exception's text
\* on an exception of the transport.
C9_ChatFailureClasses ==
    (call.op \in ChatOps /\ Requesting) =>
        /\ Answered(call.answer, 401) => Failed(INVALID_API_KEY_ERROR)
        /\ Answered(call.answer, 429) => Failed(RateLimitError)
        /\ (call.answer.k = "response" /\ call.answer.status_code \notin {200, 401, 429})
              => Failed(ApiErrorPrefix \o ProviderMessage(call.answer))
        /\ call.answer.k = "raise" => FailedWith(call.answer.text)

\* C10: validate_tmdb_api_key, search_movies, chat_completion,
\* chat_completion_with_history and get_available_models return a value for
\* every credential, input and answer of the transport: one of the three
\* validation results, or a result that says whether it succeeded; no
\* exception reaches the caller.
C10_NothingPropagates ==
    /\ call.op = "validate_tmdb_api_key" =>
          /\ call.out.k = "return"
          /\ call.out.val \in {TMDB_API_KEY_VALID, TMDB_API_KEY_INVALID, TMDB_API_KEY_ERROR}
    /\ call.op \in ServiceOps =>
          /\ call.out.k = "return"
          /\ call.out.val.success \in BOOLEAN

\* A 200 answer whose JSON is a list made chat_completion raise inside its
\* try block; the caller got a failure result.
C10_Witness ==
    /\ call.op = "chat_completion"
    /\ Requesting
    /\ call.answer = Response(200, JsonBody(ListV(<<>>)))
    /\ FailedWith(UnexpectedErrorPrefix)
    /\ Len(call.reqs) = 1

\* The search succeeded: the outcome is a success result.
Succeeded == call.out.k = "return" /\ call.out.val.success
\* The raw results of the search answer and the hits made of them.
RawResults == call.answers.search.body.json.val.results.val
Hits == call.out.val.movies
Missing(x) == x = Absent \/ x = None
\* Every raw result is a record whose optional fields are all absent or null.
AllFieldsMissing(raw) ==
    /\ raw.t = "dict"
    /\ \A f \in {"title", "overview", "poster_path", "release_date",
                 "vote_average", "vote_count"} : Missing(raw.val[f])

\* C11: a hit of a successful search carries the default of every field the
\* raw record omits or nulls (title 'Unknown Title', overview 'No overview
\* available', vote_average 0.0, vote_count 0, release_year 'Unknown',
\* poster_url None without a poster path), and a raw record whose fields are
\* all absent or null does not make the search fail.
C11_DefaultsForMissingFields ==
    (call.op = "search_movies" /\ Requesting /\ Answered(TheAnswer, 200)
       /\ IsObject(TheAnswer)) =>
        /\ Succeeded =>
             \A i \in 1..Len(Hits) :
                /\ Missing(RawResults[i].val.title)
                      => Hits[i].title = StrV(UnknownTitle)
                /\ Missing(RawResults[i].val.overview)
                      => Hits[i].overview = StrV(NoOverview)
                /\ Missing(RawResults[i].val.vote_average)
                      => Hits[i].vote_average = FloatV(0)
                /\ Missing(RawResults[i].val.vote_count)
                      => Hits[i].vote_count = IntV(0)
                /\ Missing(RawResults[i].val.release_date)
                      => Hits[i].release_year = StrV(UnknownYear)
                /\ Missing(RawResults[i].val.poster_path)
                      => Hits[i].poster_url = None
        /\ (/\ TheAnswer.body.json.val.results.t = "list"
            /\ \A i \in 1..Len(RawResults) : AllFieldsMissing(RawResults[i]))
              => Succeeded

\* C12: in the hits of a successful search a raw overview longer than 200
\* characters becomes its first 200 characters followed by '...', 203
\* characters in all, and a non-empty raw overview of at most 200 characters
\* is returned unchanged.
C12_OverviewTruncation ==
    (call.op = "search_movies" /\ Requesting /\ Answered(TheAnswer, 200)
       /\ IsObject(TheAnswer) /\ Succeeded) =>
        \A i \in 1..Len(Hits) :
            (RawResults[i].val.overview.t = "str" /\ Len(RawResults[i].val.overview.val) > 0) =>
                IF Len(RawResults[i].val.overview.val) > 200
                THEN /\ Hits[i].overview.t = "str"
                     /\ Len(Hits[i].overview.val) = 203
                     /\ SubSeq(Hits[i].overview.val, 1, 200)
                          = SubSeq(RawResults[i].val.overview.val, 1, 200)
                     /\ SubSeq(Hits[i].overview.val, 201, 203) = <<".", ".", ".">>
                ELSE Hits[i].overview = RawResults[i].val.overview

\* An overview of 201 characters came back as 203 characters.
C12_Witness ==
    /\ call.op = "search_movies"
    /\ Requesting
    /\ Answered(TheAnswer, 200)
    /\ IsObject(TheAnswer)
    /\ Succeeded
    /\ Len(Hits) = 1
    /\ RawResults[1].val.overview.t = "str"
    /\ Len(RawResults[1].val.overview.val) = 201
    /\ Len(Hits[1].overview.val) = 203

IsDigit(c) == c \in {"0", "1", "2", "3", "4", "5", "6", "7", "8", "9"}
\* The text reads as a date: a four-digit year, alone or followed by '-'.
ReadsAsDate(s) ==
    /\ Len(s) >= 4
    /\ \A i \in 1..4 : IsDigit(s[i])
    /\ Len(s) > 4 => s[5] = "-"
\* The raw release date gives no year: absent, null, empty, no text, or text
\* that does not read as a date.
NoYear(release_date) ==
    \/ Missing(release_date)
    \/ release_date.t # "str"
    \/ ~ReadsAsDate(release_date.val)

\* C13: the release_year of a hit is 'Unknown' when the raw release date is
\* absent, null, empty or does not read as a date, and the year of the date,
\* as a string, otherwise.
C13_ReleaseYear ==
    (call.op = "search_movies" /\ Requesting /\ Answered(TheAnswer, 200)
       /\ IsObject(TheAnswer) /\ Succeeded) =>
        \A i \in 1..Len(Hits) :
            IF NoYear(RawResults[i].val.release_date)
            THEN Hits[i].release_year = StrV(UnknownYear)
            ELSE Hits[i].release_year = StrV(SubSeq(RawResults[i].val.release_date.val, 1, 4))

\* The configuration answer is a 200 that supplies images.base_url as text.
SuppliesBaseUrl(answer) ==
    /\ Answered(answer, 200)
    /\ IsObject(answer)
    /\ answer.body.json.val.images.t = "dict"
    /\ answer.body.json.val.images.val.base_url.t = "str"
    /\ Len(answer.body.json.val.images.val.base_url.val) > 0
HasPosterPath(raw) == raw.val.poster_path.t = "str" /\ Len(raw.val.poster_path.val) > 0
\* The call asked the configuration endpoint.
AskedConfiguration == ConfigFetches(call.self.api_key, call.reqs) > 0

\* C14: when a search fetches the configuration and the answer is a 200 that
\* supplies images.base_url, every hit whose raw record has a non-empty
\* poster_path has poster_url = base_url + 'w500' + poster_path.
C14_PosterUrl ==
    (call.op = "search_movies" /\ Requesting /\ Answered(TheAnswer, 200)
       /\ IsObject(TheAnswer) /\ Succeeded /\ AskedConfiguration
       /\ SuppliesBaseUrl(call.answers.config)) =>
        \A i \in 1..Len(Hits) :
            HasPosterPath(RawResults[i]) =>
                Hits[i].poster_url =
                    StrV(call.answers.config.body.json.val.images.val.base_url.val
                         \o <<"w", "5", "0", "0">>
                         \o RawResults[i].val.poster_path.val)

\* Two hits with poster '/x.jpg' were resolved against base_url 'https://img/'.
C14_Witness ==
    /\ call.op = "search_movies"
    /\ Requesting
    /\ Succeeded
    /\ AskedConfiguration
    /\ call.answers.config = GoodConfig
    /\ Len(Hits) = 2
    /\ Hits[2].poster_url =
          StrV(<<"h","t","t","p","s",":","/","/","i","m","g","/","w","5","0","0",
                 "/","x",".","j","p","g">>)

TmdbOps == {"search_movies", "get_movie_poster_url"}

\* C15: over the calls made on one TmdbService object the configuration
\* endpoint is requested at most once, whatever it answers, and a cache that
\* has been populated is never cleared or replaced by a later call.
C15_ConfigurationFetchedOnce ==
    /\ fetches <= 1
    /\ (call.op \in TmdbOps /\ call.self._config_cache # None)
          => svc._config_cache = call.self._config_cache

\* The configuration fetch fails: an exception, a status other than 200, or a
\* 200 whose body carries no images.base_url.
ConfigurationFails(answer) ==
    \/ answer.k = "raise"
    \/ answer.status_code # 200
    \/ ~IsObject(answer)
    \/ answer.body.json.val.images.t # "dict"
    \/ Missing(answer.body.json.val.images.val.base_url)
\* The raw record is one the normalization accepts: an object whose overview
\* is text or missing.
Normalizable(raw) ==
    raw.t = "dict" /\ (Missing(raw.val.overview) \/ raw.val.overview.t = "str")

\* C16: when the search answer is a 200 with results and the configuration
\* fetch fails, search_movies still succeeds with one hit for every result,
\* each with poster_url None.
C16_ConfigurationFailureDegrades ==
    (/\ call.op = "search_movies"
     /\ Requesting
     /\ Answered(TheAnswer, 200)
     /\ IsObject(TheAnswer)
     /\ TheAnswer.body.json.val.results.t = "list"
     /\ \A i \in 1..Len(RawResults) : Normalizable(RawResults[i])
     /\ ~Truthy(call.self._config_cache)
     /\ ConfigurationFails(call.answers.config))
        => /\ Succeeded
           /\ Len(Hits) = Len(RawResults)
           /\ \A i \in 1..Len(Hits) : Hits[i].poster_url = None

\* Two results with posters were found while the configuration endpoint was
\* unreachable: both hits came back, without poster URLs.
C16_Witness ==
    /\ call.op = "search_movies"
    /\ Requesting
    /\ call.answers.config = Failure("ConnectionError", Boom)
    /\ AskedConfiguration
    /\ Succeeded
    /\ Len(Hits) = 2
    /\ Hits[1].poster_url = None
    /\ Hits[2].poster_url = None

\* C17: chat_completion_with_history sends the caller's message list as the
\* 'messages' of its one request: the same messages in the same order,
\* nothing added, removed or reordered.
C17_HistorySentAsIs ==
    (call.op = "chat_completion_with_history" /\ Requesting) =>
        /\ Len(call.reqs) = 1
        /\ call.reqs[1].json.messages = call.conversation_history.val

\* A history of a system message followed by a user message was sent in
\* that order.
C17_Witness ==
    /\ call.op = "chat_completion_with_history"
    /\ Requesting
    /\ call.conversation_history =
          ListV(<<[role |-> "system", content |-> <<"a">>],
                  [role |-> "user", content |-> <<"a">>]>>)
    /\ Len(call.reqs) = 1
    /\ call.reqs[1].json.messages = call.conversation_history.val

\* C18: the payload of chat_completion and chat_completion_with_history has
\* no 'max_tokens' key when max_tokens is not supplied (None), and carries
\* 'max_tokens' equal to the value when one is supplied.
C18_MaxTokensInPayload ==
    (call.op \in ChatOps /\ Requesting) =>
        IF call.max_tokens = None
        THEN "max_tokens" \notin DOMAIN call.reqs[1].json
        ELSE /\ "max_tokens" \in DOMAIN call.reqs[1].json
             /\ call.reqs[1].json.max_tokens = call.max_tokens

\* The payload fields of each operation's success result.
PayloadFields(op) ==
    IF op = "search_movies"
    THEN {"movies", "current_page", "total_pages", "total_results"}
    ELSE IF op \in ChatOps
    THEN {"response", "model", "usage", "finish_reason"}
    ELSE {"models"}
IsText(x) == x \in Seq(STRING)

\* C19: every result of search_movies, chat_completion,
\* chat_completion_with_history and get_available_models has one of two
\* shapes: success true with the operation's payload fields and no 'error',
\* or success false with a string 'error' and no payload field.
C19_TwoResultShapes ==
    call.op \in ServiceOps =>
        /\ call.out.k = "return"
        /\ IF call.out.val.success
           THEN DOMAIN call.out.val = {"success"} \cup PayloadFields(call.op)
           ELSE /\ DOMAIN call.out.val = {"success", "error"}
                /\ IsText(call.out.val.error)

\* Both shapes occur: a search that succeeded with its payload, and a chat
\* completion that the provider refused with status 500.
C19_Witness ==
    \/ /\ call.op = "search_movies"
       /\ call.out.k = "return"
       /\ call.out.val.success
       /\ Len(call.out.val.movies) > 0
       /\ DOMAIN call.out.val = {"success"} \cup PayloadFields(call.op)
    \/ /\ call.op = "chat_completion"
       /\ Requesting
       /\ Answered(call.answer, 500)
       /\ call.out.k = "return"
       /\ ~call.out.val.success
       /\ DOMAIN call.out.val = {"success", "error"}
       /\ Len(call.out.val.error) > 0

\* The number of requests the call issued to `url`.
RequestsTo(url) == Cardinality({i \in 1..Len(call.reqs) : call.reqs[i].url = url})

\* C20: no operation retries. validate_tmdb_api_key with a non-empty
\* credential issues exactly one request; search_movies, chat_completion and
\* chat_completion_with_history, once past their input checks, issue exactly
\* one request to their primary endpoint, whatever the transport answers.
C20_NoRetry ==
    /\ (call.op = "validate_tmdb_api_key" /\ ~NoCredential(call.api_key)) =>
          /\ Len(call.reqs) = 1
          /\ RequestsTo("https://api.themoviedb.org/3/authentication") = 1
    /\ (call.op = "search_movies" /\ Requesting) =>
          /\ RequestsTo("https://api.themoviedb.org/3/search/movie") = 1
          /\ call.reqs[1].url = "https://api.themoviedb.org/3/search/movie"
    /\ (call.op \in ChatOps /\ Requesting) =>
          /\ Len(call.reqs) = 1
          /\ RequestsTo("https://api.openai.com/v1/chat/completions") = 1

\* The validator's request timed out; it reported 'error' after that one
\* request.
C20_Witness ==
    /\ call.op = "validate_tmdb_api_key"
    /\ ~NoCredential(call.api_key)
    /\ call.answer.k = "raise"
    /\ call.answer.cls = "Timeout"
    /\ call.out = Return(TMDB_API_KEY_ERROR)
    /\ Len(call.reqs) = 1

\* The raw overview and release date of a format_movie_data call on a dict.
FormatsMovie == call.op = "format_movie_data" /\ call.raw_movie.t = "dict"
RawOverview == call.raw_movie.val.overview
RawReleaseDate == call.raw_movie.val.release_date
EndsWith(s, suffix) ==
    Len(s) >= Len(suffix) /\ SubSeq(s, Len(s) - Len(suffix) + 1, Len(s)) = suffix

\* C23: format_movie_data returns, for a raw overview of more than 200
\* characters, an overview of at most 200 characters that ends with '...';
\* a non-empty overview of at most 200 characters comes back unchanged.
C23_PageOverviewTruncation ==
    (FormatsMovie /\ RawOverview.t = "str" /\ Len(RawOverview.val) > 0) =>
        /\ call.out.k = "return"
        /\ IF Len(RawOverview.val) > PageOverviewLimit
           THEN /\ Len(call.out.val.overview.val) <= PageOverviewLimit
                /\ EndsWith(call.out.val.overview.val, Ellipsis)
                /\ SubSeq(call.out.val.overview.val, 1, PageOverviewKept)
                      = SubSeq(RawOverview.val, 1, PageOverviewKept)
           ELSE call.out.val.overview = RawOverview

\* An overview of 201 characters came back as 200 characters ending '...'.
C23_Witness ==
    /\ FormatsMovie
    /\ RawOverview.t = "str"
    /\ Len(RawOverview.val) = PageOverviewLimit + 1
    /\ call.out.k = "return"
    /\ Len(call.out.val.overview.val) = PageOverviewLimit
    /\ EndsWith(call.out.val.overview.val, Ellipsis)

\* y is the part of d before its first '-' (all of d when it has none).
IsPartBeforeDash(y, d) ==
    /\ Len(y) <= Len(d)
    /\ SubSeq(d, 1, Len(y)) = y
    /\ \A i \in 1..Len(y) : y[i] # "-"
    /\ Len(y) = Len(d) \/ d[Len(y) + 1] = "-"
NonEmptyString(x) == x.t = "str" /\ Len(x.val) > 0
AbsentNullOrEmpty(x) == x \in {Absent, None, StrV(<<>>)}

\* C24 as stated: format_movie_data gives as release_year the part of a
\* non-empty release_date string before its first '-', whatever it is, and
\* gives 'Unknown' only when release_date is absent, null or empty.
C24_ReleaseYearUnknownOnlyIfMissing ==
    (FormatsMovie /\ call.out.k = "return") =>
        /\ NonEmptyString(RawReleaseDate) =>
              /\ call.out.val.release_year.t = "str"
              /\ IsPartBeforeDash(call.out.val.release_year.val, RawReleaseDate.val)
        /\ call.out.val.release_year = StrV(UnknownYear) => AbsentNullOrEmpty(RawReleaseDate)

\* C24 amended: the part before the first '-' for a non-empty string, and
\* 'Unknown' exactly when release_date is absent, null, empty or not a
\* string.
C24_ReleaseYearOfPage ==
    (FormatsMovie /\ call.out.k = "return") =>
        /\ NonEmptyString(RawReleaseDate) =>
              /\ call.out.val.release_year.t = "str"
              /\ IsPartBeforeDash(call.out.val.release_year.val, RawReleaseDate.val)
        /\ (AbsentNullOrEmpty(RawReleaseDate) \/ RawReleaseDate.t # "str")
              => call.out.val.release_year = StrV(UnknownYear)
        /\ call.out.val.release_year = StrV(UnknownYear)
              => (AbsentNullOrEmpty(RawReleaseDate) \/ RawReleaseDate.t # "str")

\* 'invalid-date' gave the release year 'invalid'.
C24_Witness ==
    /\ FormatsMovie
    /\ RawReleaseDate = InvalidDate
    /\ call.out.k = "return"
    /\ call.out.val.release_year = StrV(<<"i","n","v","a","l","i","d">>)

\* The time of a calculator call has a fractional part.
Fractional(time) == time.val % 10 # 0

\* C26: the yearly breakdown of calculate_compound_interest has one entry
\* for each whole year 1..floor(time), labelled with the year, plus one last
\* entry exactly when time has a fractional part, and that entry's 'Year'
\* label is the time written as text.
C26_YearlyBreakdown ==
    call.op = "calculate_compound_interest" =>
        /\ Len(call.yearly_breakdown)
              = WholeYears(call.time) + (IF Fractional(call.time) THEN 1 ELSE 0)
        /\ \A year \in 1..WholeYears(call.time) :
              call.yearly_breakdown[year].Year = IntV(year)
        /\ Fractional(call.time) =>
              call.yearly_breakdown[Len(call.yearly_breakdown)].Year
                  = StrV(TimeText(call.time))

\* c is s without the whitespace around it.
IsTrimOf(c, s) ==
    /\ \E i \in 0..(Len(s) - Len(c)) :
          /\ SubSeq(s, i + 1, i + Len(c)) = c
          /\ \A j \in 1..i : IsSpace(s[j])
          /\ \A j \in (i + Len(c) + 1)..Len(s) : IsSpace(s[j])
    /\ Len(c) > 0 => ~IsSpace(c[1]) /\ ~IsSpace(c[Len(c)])
\* m is the user message of the call: the input message, trimmed.
IsUserMessage(m) == m.role = "user" /\ IsTrimOf(m.content, call.message.val)

\* C25: chat_completion sends one system message first if and only if a
\* non-empty system_message was given, then exactly one user message whose
\* content is the input message without the whitespace around it; a message
\* that is None, empty or only whitespace fails without a request.
C25_ChatMessageList ==
    (call.op = "chat_completion" /\ HasCredential(call.self.api_key)) =>
        IF OnlySpaces(call.message)
        THEN Failed(MessageEmptyError) /\ call.reqs = <<>>
        ELSE /\ Len(call.reqs) = 1
             /\ IF NonEmptyString(call.system_message)
                THEN /\ Len(call.reqs[1].json.messages) = 2
                     /\ call.reqs[1].json.messages[1]
                           = [role |-> "system", content |-> call.system_message.val]
                     /\ IsUserMessage(call.reqs[1].json.messages[2])
                ELSE /\ Len(call.reqs[1].json.messages) = 1
                     /\ IsUserMessage(call.reqs[1].json.messages[1])

\* The message ' a' with the system message 's' was sent as the system
\* message followed by the user message 'a'.
C25_Witness ==
    /\ call.op = "chat_completion"
    /\ HasCredential(call.self.api_key)
    /\ call.message = StrV(<<" ", "a">>)
    /\ call.system_message = StrV(<<"s">>)
    /\ Len(call.reqs) = 1
    /\ call.reqs[1].json.messages
          = <<[role |-> "system", content |-> <<"s">>],
              [role |-> "user", content |-> <<"a">>]>>

\* A run of one of the two pages.
PageRan == call.op \in {"render_movie_search", "render_chat_interface"}

\* The first request of the run is the validator's probe with the run's
\* credential.
ProbedFirst ==
    /\ Len(call.run.reqs) >= 1
    /\ call.run.reqs[1].method = "GET"
    /\ IF call.op = "render_movie_search"
       THEN /\ call.run.reqs[1].url = "https://api.themoviedb.org/3/authentication"
            /\ call.run.reqs[1].params.api_key = call.run.api_key
       ELSE /\ call.run.reqs[1].url = "https://api.openai.com/v1/models"
            /\ call.run.reqs[1].headers.Authorization
                   = <<"B","e","a","r","e","r"," ">> \o call.run.api_key.val

\* C21: in a run of either page, a call of search_movies,
\* get_available_models or chat_completion_with_history happens only if the
\* credential obtained in the run is a non-empty string and the validator,
\* asked first in the same run with that credential, answered 'valid'; when
\* the validator answers 'invalid' or 'error' the run constructs no service,
\* calls nothing and issues no request after the probe.
C21_ValidatedBeforeService ==
    PageRan =>
        /\ call.run.calls # <<>> =>
              /\ call.run.api_key.t = "str"
              /\ call.run.api_key.val # <<>>
              /\ call.run.validation = "valid"
              /\ ProbedFirst
        /\ call.run.validation \in {"invalid", "error"} =>
              /\ call.run.service = NoService
              /\ call.run.calls = <<>>
              /\ Len(call.run.reqs) <= 1
        /\ call.run.service # NoService => call.run.validation = "valid"

\* The movie page searched after the validator accepted the credential.
C21_Witness ==
    /\ call.op = "render_movie_search"
    /\ call.run.validation = "valid"
    /\ call.run.view = "results"
    /\ Len(call.run.calls) = 1
    /\ Len(call.run.reqs) >= 2

\* C27: on the movie page, after Next, Previous, First or Last is pressed
\* while page p of several is shown, the next search the page issues asks
\* the provider for page p+1, p-1, 1 or total_pages: a run that searches
\* while a pressed button's page is awaited calls search_movies with that
\* page and sends it in the request.
C27_NextSearchRequestsPressedPage ==
    (/\ call.op = "render_movie_search"
     /\ call.awaited # 0
     /\ call.run.calls # <<>>)
    => /\ call.run.calls[1].op = "search_movies"
       /\ call.run.calls[1].page = call.awaited
       /\ \A i \in 1..Len(call.run.reqs) :
             call.run.reqs[i].url = "https://api.themoviedb.org/3/search/movie"
                => call.run.reqs[i].params.page = call.awaited

\* A run of the chat page that took a user input: it built a conversation
\* and called chat_completion_with_history.
Sent == call.op = "render_chat_interface" /\ call.run.conversation # Absent
HistoryBefore == call.chat_history
HistoryAfter == call.run.session_state.chat_history.val
\* The transport answered the completion with 200.
Replied == call.w.chat_answer.k = "response" /\ call.w.chat_answer.status_code = 200

IsChatHistory(h) ==
    /\ Cardinality({i \in 1..Len(h) : h[i].role = "assistant"})
          <= Cardinality({i \in 1..Len(h) : h[i].role = "user"})
    /\ \A i \in 1..Len(h) : h[i].role = "assistant" => i > 1 /\ h[i - 1].role = "user"

\* C28: a submitted user input appends exactly one user message, with the
\* input as content, to the session's chat history, and that message is the
\* last of the conversation sent; an assistant message is appended after it
\* if and only if the completion succeeds, and on a failure nothing else is
\* appended.  At all times the history has no more assistant than user
\* messages and every assistant message directly follows a user message.
C28_HistoryGrowth ==
    /\ Sent =>
          /\ Len(HistoryAfter) > Len(HistoryBefore)
          /\ SubSeq(HistoryAfter, 1, Len(HistoryBefore)) = HistoryBefore
          /\ HistoryAfter[Len(HistoryBefore) + 1].role = "user"
          /\ HistoryAfter[Len(HistoryBefore) + 1].content = call.w.user_input.val
          /\ call.run.conversation.val[Len(call.run.conversation.val)].role = "user"
          /\ IF Replied
             THEN /\ Len(HistoryAfter) = Len(HistoryBefore) + 2
                  /\ HistoryAfter[Len(HistoryAfter)].role = "assistant"
                  /\ call.run.view = "reply"
             ELSE /\ Len(HistoryAfter) = Len(HistoryBefore) + 1
                  /\ call.run.view = "error"
    /\ st_session_state.chat_history # Absent => IsChatHistory(st_session_state.chat_history.val)

\* A send failed after a send that was answered: the history ends with a
\* user message that has no reply.
C28_Witness ==
    /\ Sent
    /\ ~Replied
    /\ Len(HistoryBefore) >= 2
    /\ HistoryBefore[Len(HistoryBefore)].role = "assistant"
    /\ Len(HistoryAfter) = Len(HistoryBefore) + 1
    /\ st_session_state.chat_history.val = HistoryAfter

\* The conversation of a send, the history it was built from (the stored
\* history with the input's message appended) and the size of the window.
Conv == call.run.conversation.val
HistoryAtSend == SubSeq(HistoryAfter, 1, Len(HistoryBefore) + 1)
Window == IF Len(HistoryAtSend) < HistoryWindow THEN Len(HistoryAtSend) ELSE HistoryWindow
\* The message of the history that stands at place j of the window.
Windowed(j) == HistoryAtSend[Len(HistoryAtSend) - Window + j]
\* The system-message text is not blank.
HasSystemText == \E i \in 1..Len(call.w.system_message.val) : ~IsSpace(call.w.system_message.val[i])
\* The conversation is an optional system message, present iff the text is
\* not blank and holding the text trimmed, followed by Window messages.
SystemThenWindow ==
    /\ Len(Conv) = Window + (IF HasSystemText THEN 1 ELSE 0)
    /\ Len(Conv) >= 1
    /\ Len(Conv) <= HistoryWindow + 1
    /\ HasSystemText => /\ Conv[1].role = "system"
                        /\ IsTrimOf(Conv[1].content, call.w.system_message.val)
    /\ \A j \in 1..Window : Conv[Len(Conv) - Window + j].role = Windowed(j).role
    /\ Conv[Len(Conv)].role = "user"
    /\ StartsWith(Conv[Len(Conv)].content, call.w.user_input.val)
\* What follows the message's own content in the conversation names every
\* attached file and holds its text.
HoldsFiles(content, msg) ==
    /\ StartsWith(content, msg.content)
    /\ Len(content) > Len(msg.content)
    /\ \A i \in 1..Len(msg.files) :
          /\ Contains(SubSeq(content, Len(msg.content) + 1, Len(content)), msg.files[i].name)
          /\ Contains(SubSeq(content, Len(msg.content) + 1, Len(content)),
                      msg.files[i].content)

\* C29 as stated: the conversation passed to chat_completion_with_history is
\* an optional system message (present iff the text is not blank) followed
\* by exactly the last min(10, n) messages of the n-message history, in
\* order, the last being the user message just entered; it has between 1
\* and 11 messages.
C29_ConversationIsWindow ==
    Sent =>
        /\ SystemThenWindow
        /\ \A j \in 1..Window : Conv[Len(Conv) - Window + j].content = Windowed(j).content

\* C29: the conversation passed to chat_completion_with_history is an
\* optional system message (present iff the text is not blank) followed by
\* the last min(10, n) messages of the n-message history, in order, each
\* with its role and content, the content of a user message that carries
\* attached files being followed by the files' names and text; the last is
\* the user message just entered; it has between 1 and 11 messages.
C29_ConversationIsWindowWithFiles ==
    Sent =>
        /\ SystemThenWindow
        /\ \A j \in 1..Window :
              IF Windowed(j).role = "user" /\ Windowed(j).files # <<>>
              THEN HoldsFiles(Conv[Len(Conv) - Window + j].content, Windowed(j))
              ELSE Conv[Len(Conv) - Window + j].content = Windowed(j).content

\* A send with a system message on a history of more than ten messages, of
\* which the window holds messages with and without attached files and
\* leaves out at least one.
C29_Witness ==
    /\ Sent
    /\ HasSystemText
    /\ Len(HistoryAtSend) > HistoryWindow
    /\ Len(Conv) = HistoryWindow + 1
    /\ \E j \in 1..Window : Windowed(j).role = "user" /\ Windowed(j).files # <<>>
    /\ \E j \in 1..Window : Windowed(j).role = "user" /\ Windowed(j).files = <<>>
====
